---------------------------- MODULE Spec2Model ----------------------------
(***************************************************************************)
(* A model of the retrieval core of AI-Tutor:                              *)
(*   - the chunker, backend/utils/text_splitter.py (TextSplitter and       *)
(*     CodeAwareTextSplitter);                                             *)
(*   - the vector index, backend/core/vectorstore.py (VectorStoreManager). *)
(*                                                                         *)
(* A text is a sequence of characters; a character is a one-character      *)
(* string, except the backquote and the three full-width separators, which *)
(* SANY cannot read and which are written by their code point ("U+3002").  *)
(***************************************************************************)
EXTENDS Integers, Sequences, FiniteSets, TLC

VARIABLES
    \* ---- the chunker ----
    text,           \* the text handed to the splitter
    chunk_size,     \* self.chunk_size
    chunk_overlap,  \* self.chunk_overlap
    pc,             \* where the splitter is: "new", "ready", "enter", "loop",
                    \* "window", "return", "done"
    stack,          \* the call stack of _recursive_split (step-wise runs)
    ret,            \* the value the last finished call returned
    splitter,       \* which split_text produced `result`
    result,         \* the chunk list split_text returned
    \* ---- the vector index ----
    store,          \* the collection: stored entries in insertion order
    next_uid,       \* the next id the store generates for an entry without one
    clock,          \* datetime.now()
    last,           \* the two latest add / delete calls
    found,          \* what the latest search since the latest add / delete
                    \* returned
    asked,          \* the arguments of that search
    \* ---- the services ----
    rag,            \* the running RAGService.query call
    adders,         \* the add_documents calls that run side by side
    manager,        \* the VectorStoreManager class, its instances and the
                    \* callers that construct it
    chat            \* the chat sessions of the database and the running
                    \* chat request

chunker_vars == <<text, chunk_size, chunk_overlap, pc, stack, ret, splitter, result>>
index_vars   == <<store, next_uid, clock, last, found, asked, rag, adders,
                  manager, chat>>
service_vars == <<rag, adders, manager, chat>>
vars         == <<text, chunk_size, chunk_overlap, pc, stack, ret, splitter, result,
                  store, next_uid, clock, last, found, asked, rag, adders,
                  manager, chat>>

(***************************************************************************)
(* Bounds of the model.                                                    *)
(***************************************************************************)
MaxTokens == 4      \* a text of the chunker runs is at most this many tokens
MaxSize == 4        \* chunk_size ranges over 1..MaxSize
MaxLen == 4         \* a text of the step-wise runs is at most this long
MaxChunks == 2      \* an add call carries at most this many chunks
MaxIndexed == 2     \* the query runs stamp at most this many chunks
MaxStamps == 3      \* the add calls of a run stamp at most this many chunks
MaxContent == 152   \* a content of the preview runs is at most this long
MaxCalls == 2       \* a caller constructs the manager at most this many times
MaxRequests == 3    \* a run serves at most this many chat requests

(***************************************************************************)
(* Python's str and list operations, as the splitter uses them.            *)
(***************************************************************************)
\* The characters str.strip() removes that the model's texts can hold.
Whitespace == {" ", "\n", "\t", "\r"}

\* s.strip()
Strip(s) ==
    IF \A i \in 1..Len(s) : s[i] \in Whitespace THEN <<>>
    ELSE LET first == CHOOSE i \in 1..Len(s) :
                         /\ s[i] \notin Whitespace
                         /\ \A j \in 1..(i-1) : s[j] \in Whitespace
             last_ == CHOOSE i \in 1..Len(s) :
                         /\ s[i] \notin Whitespace
                         /\ \A j \in (i+1)..Len(s) : s[j] \in Whitespace
         IN  SubSeq(s, first, last_)

\* The index a slice bound i denotes in a sequence of length n (0-based).
SliceIndex(i, n) == IF i < 0 THEN (IF i + n < 0 THEN 0 ELSE i + n)
                    ELSE (IF i > n THEN n ELSE i)

\* s[start:stop], with Python's 0-based, end-exclusive, clipped bounds.
Slice(s, start, stop) ==
    LET lo == SliceIndex(start, Len(s))
        hi == SliceIndex(stop, Len(s))
    IN  IF lo >= hi THEN <<>> ELSE SubSeq(s, lo + 1, hi)

\* s[-n:] for n > 0
LastChars(s, n) == Slice(s, 0 - n, Len(s))

\* text[p:p+len(sep)] == sep, p 0-based
OccursAt(t, sep, p) ==
    /\ p >= 0
    /\ p + Len(sep) <= Len(t)
    /\ \A k \in 1..Len(sep) : t[p + k] = sep[k]

\* sep in text
Contains(t, sep) == \E p \in 0..Len(t) : OccursAt(t, sep, p)

\* text.find(sep, from): the first occurrence at or after `from`, or -1
Find(t, sep, from) ==
    IF \E p \in from..Len(t) : OccursAt(t, sep, p)
    THEN CHOOSE p \in from..Len(t) :
            /\ OccursAt(t, sep, p)
            /\ \A q \in from..(p-1) : ~OccursAt(t, sep, q)
    ELSE -1

\* text.split(sep) for a non-empty sep: the pieces between the leftmost
\* non-overlapping occurrences of sep. (p ranges over the one value of
\* find, so that the position is computed once for each piece.)
RECURSIVE SplitFrom(_, _, _)
SplitFrom(t, sep, from) ==
    CHOOSE pieces \in
        { IF p = -1 THEN << Slice(t, from, Len(t)) >>
          ELSE << Slice(t, from, p) >> \o SplitFrom(t, sep, p + Len(sep)) :
            p \in { Find(t, sep, from) } } : TRUE

Split(t, sep) == SplitFrom(t, sep, 0)

(***************************************************************************)
(* TextSplitter.__init__: the default separators, coarsest first.          *)
(***************************************************************************)
DefaultSeparators ==
    << <<"\n", "\n">>,   \* paragraph break
       <<"\n">>,         \* line break
       <<"U+3002">>,     \* Chinese period
       <<".">>,          \* English period
       <<"U+FF1B">>,     \* Chinese semicolon
       <<";">>,          \* English semicolon
       <<"U+FF0C">>,     \* Chinese comma
       <<",">>,          \* English comma
       <<" ">>,          \* space
       <<>> >>           \* character level (last resort)


(***************************************************************************)
(* TextSplitter._split_by_size: fixed-size windows with overlap.           *)
(***************************************************************************)
\* end = start + self.chunk_size; chunk = text[start:end]
Window(t, start) == Slice(t, start, start + chunk_size)

\* A variant of NextStart whose windows do not overlap: start = end
NextStartWithoutOverlap(start) == start + chunk_size

\* start = end - self.chunk_overlap
NextStart(start) == (start + chunk_size) - chunk_overlap

\* if chunk.strip(): chunks.append(chunk.strip())
Keep(chunks, chunk) ==
    IF Strip(chunk) # <<>> THEN Append(chunks, Strip(chunk)) ELSE chunks

\* The while loop, from `start` on with `chunks` collected so far. It is
\* defined where the loop ends, that is for chunk_overlap < chunk_size.
RECURSIVE SplitBySizeFrom(_, _, _)
SplitBySizeFrom(t, start, chunks) ==
    IF start < Len(t)
    THEN SplitBySizeFrom(t, NextStart(start), Keep(chunks, Window(t, start)))
    ELSE chunks

SplitBySize(t) == SplitBySizeFrom(t, 0, <<>>)

(***************************************************************************)
(* TextSplitter._recursive_split.                                          *)
(***************************************************************************)
\* The early returns: `if not text` and `if len(text) <= self.chunk_size`.
IsSmall(t) == Len(t) <= chunk_size

SmallResult(t) == IF t = <<>> THEN <<>>
                  ELSE IF Strip(t) # <<>> THEN <<t>> ELSE <<>>

\* Whether `for i, separator in enumerate(separators)` stops at the i-th
\* separator (1-based): it is "" or occurs in the text.
StopsAt(t, separators, i) ==
    separators[i] = <<>> \/ Contains(t, separators[i])

\* The index at which the separator loop stops: the first separator that is
\* "" or occurs in the text; 0 when the loop runs out.
ChosenSeparator(t, separators) ==
    IF \E i \in 1..Len(separators) : StopsAt(t, separators, i)
    THEN CHOOSE i \in 1..Len(separators) :
            /\ StopsAt(t, separators, i)
            /\ \A j \in 1..(i-1) : ~StopsAt(t, separators, j)
    ELSE 0

\* Whether the separator loop of _recursive_split ends in _split_by_size:
\* it reaches "" or runs out of separators.
FallsBack(t, separators) ==
    LET i == ChosenSeparator(t, separators)
    IN  i = 0 \/ separators[i] = <<>>

\* A variant of FinerSeparators that keeps the chosen separator: separators[i:]
SeparatorsFromChosen(separators, i) == SubSeq(separators, i, Len(separators))

\* separators[i+1:]: the separators after the chosen one (the i-th, 1-based)
FinerSeparators(separators, i) == SubSeq(separators, i + 1, Len(separators))

\* piece = split + separator if separator else split
Piece(split, separator) == split \o separator

\* if len(current_chunk) + len(piece) <= self.chunk_size
Fits(current_chunk, piece) == Len(current_chunk) + Len(piece) <= chunk_size

\* A variant of StartChunk that seeds the new chunk with no overlap.
StartChunkWithoutOverlap(current_chunk, piece) == piece

\* Start new chunk (with overlap if possible)
StartChunk(current_chunk, piece) ==
    IF chunk_overlap > 0 /\ current_chunk # <<>>
    THEN LastChars(current_chunk, chunk_overlap) \o piece
    ELSE piece

\* A variant of TooLarge that does not count the overlap window.
TooLargeWithoutOverlap(current_chunk) ==
    Len(current_chunk) > chunk_size + chunk_overlap

\* if len(current_chunk) > self.chunk_size: the new chunk is split further
TooLarge(current_chunk) == Len(current_chunk) > chunk_size

\* chunks.extend(sub_chunks[:-1]) and current_chunk = sub_chunks[-1], when
\* the recursive call returned something; nothing changes when it did not.
AfterSubSplit(chunks, current_chunk, sub_chunks) ==
    IF sub_chunks # <<>>
    THEN [chunks |-> chunks \o SubSeq(sub_chunks, 1, Len(sub_chunks) - 1),
          current_chunk |-> sub_chunks[Len(sub_chunks)]]
    ELSE [chunks |-> chunks, current_chunk |-> current_chunk]

RECURSIVE RecursiveSplit(_, _)
RECURSIVE MergeSplits(_, _, _, _, _, _)

\* `for split in splits`, from the k-th split on, and the code after the loop.
MergeSplits(splits, k, separator, finer, chunks, current_chunk) ==
    IF k > Len(splits) THEN Keep(chunks, current_chunk)
    ELSE LET piece == Piece(splits[k], separator)
         IN  IF Fits(current_chunk, piece)
             THEN MergeSplits(splits, k + 1, separator, finer, chunks,
                              current_chunk \o piece)
             ELSE LET flushed == Keep(chunks, current_chunk)
                      started == StartChunk(current_chunk, piece)
                  IN  IF TooLarge(started)
                      THEN LET a == AfterSubSplit(flushed, started,
                                                  RecursiveSplit(started, finer))
                           IN  MergeSplits(splits, k + 1, separator, finer,
                                           a.chunks, a.current_chunk)
                      ELSE MergeSplits(splits, k + 1, separator, finer,
                                       flushed, started)

RecursiveSplit(t, separators) ==
    IF t = <<>> \/ IsSmall(t) THEN SmallResult(t)
    ELSE LET i == ChosenSeparator(t, separators)
         IN  IF FallsBack(t, separators) THEN SplitBySize(t)
             ELSE MergeSplits(Split(t, separators[i]), 1, separators[i],
                              FinerSeparators(separators, i), <<>>, <<>>)

(***************************************************************************)
(* TextSplitter.split_text. A chunk is a record; the key "is_code", which  *)
(* only code chunks carry, is FALSE where the dict has no such key. The    *)
(* caller's metadata is copied to every chunk unchanged and is left out.   *)
(***************************************************************************)
ChunkData(content, i) ==
    [content |-> content, chunk_index |-> i, char_count |-> Len(content),
     is_code |-> FALSE]

SplitText(t) ==
    LET chunks == RecursiveSplit(t, DefaultSeparators)
    IN  [i \in 1..Len(chunks) |-> ChunkData(chunks[i], i - 1)]

\* -------------------------------------------------------------------------
\* CodeAwareTextSplitter.code_pattern, compiled with re.MULTILINE:
\*     ```[\s\S]*?```   or   (?:^|\n) (?:    |\t) .* (?: \n (?:    |\t) .* )*
\* (the pattern is written here with blanks between its parts).
\* Positions are 0-based and ends exclusive, as match.start() and
\* match.end() are.
\* -------------------------------------------------------------------------
\* A backquote, which SANY cannot read in a string, is written "U+0060".
Fence == <<"U+0060", "U+0060", "U+0060">>
FourSpaces == <<" ", " ", " ", " ">>

\* ```[\s\S]*?``` tried at p: the end of the match, or -1. The lazy body
\* stops at the first closing fence at or after p + 3.
FencedEnd(t, p) ==
    IF OccursAt(t, Fence, p) /\ Find(t, Fence, p + 3) # -1
    THEN Find(t, Fence, p + 3) + 3
    ELSE -1

\* (?:    |\t) tried at p: the length it matches, 0 when it does not.
IndentLen(t, p) ==
    IF OccursAt(t, FourSpaces, p) THEN 4
    ELSE IF OccursAt(t, <<"\t">>, p) THEN 1
    ELSE 0

\* .* from p: "." matches everything but a newline, greedily.
LineEnd(t, p) ==
    IF Find(t, <<"\n">>, p) = -1 THEN Len(t) ELSE Find(t, <<"\n">>, p)

\* The repeated group (a newline, an indent, the rest of the line) from e,
\* the end of a line: every further line that starts with an indent is taken.
RECURSIVE IndentedRunEnd(_, _)
IndentedRunEnd(t, e) ==
    IF OccursAt(t, <<"\n">>, e) /\ IndentLen(t, e + 1) > 0
    THEN IndentedRunEnd(t, LineEnd(t, e + 1 + IndentLen(t, e + 1)))
    ELSE e

\* ^ at p under re.MULTILINE
LineStart(t, p) == p = 0 \/ OccursAt(t, <<"\n">>, p - 1)

\* The indented alternative tried at p: the end of the match, or -1.
\* (?:^|\n) takes the empty match at a line start first, a newline second.
IndentedEnd(t, p) ==
    IF LineStart(t, p) /\ IndentLen(t, p) > 0
    THEN IndentedRunEnd(t, LineEnd(t, p + IndentLen(t, p)))
    ELSE IF OccursAt(t, <<"\n">>, p) /\ IndentLen(t, p + 1) > 0
    THEN IndentedRunEnd(t, LineEnd(t, p + 1 + IndentLen(t, p + 1)))
    ELSE -1

\* The pattern tried at p: the fenced alternative first.
MatchEnd(t, p) ==
    IF FencedEnd(t, p) # -1 THEN FencedEnd(t, p) ELSE IndentedEnd(t, p)

\* list(self.code_pattern.finditer(text)): the leftmost non-overlapping
\* matches, each [start, end).
RECURSIVE FindIterFrom(_, _)
FindIterFrom(t, p) ==
    IF p >= Len(t) THEN <<>>
    ELSE IF MatchEnd(t, p) = -1 THEN FindIterFrom(t, p + 1)
    ELSE << [start |-> p, end |-> MatchEnd(t, p)] >>
            \o FindIterFrom(t, MatchEnd(t, p))

FindIter(t) == FindIterFrom(t, 0)

(***************************************************************************)
(* CodeAwareTextSplitter.split_text.                                       *)
(***************************************************************************)
\* The chunk_data of a code block kept whole; chunk_index is len(chunks).
CodeChunkData(code_block, chunks) ==
    [content |-> code_block, chunk_index |-> Len(chunks),
     char_count |-> Len(code_block), is_code |-> TRUE]

\* if len(code_block) <= self.chunk_size * 2
KeptWhole(code_block) == Len(code_block) <= chunk_size * 2

\* The text before a match, split when it is not blank.
SplitIfNotBlank(chunks, t) ==
    IF Strip(t) # <<>> THEN chunks \o SplitText(t) ELSE chunks

\* One iteration of `for match in code_blocks`.
AfterMatch(t, chunks, last_end, match) ==
    LET before == SplitIfNotBlank(chunks, Slice(t, last_end, match.start))
        code_block == Slice(t, match.start, match.end)
    IN  IF KeptWhole(code_block)
        THEN Append(before, CodeChunkData(code_block, before))
        ELSE before \o SplitText(code_block)

RECURSIVE CodeBlocksLoop(_, _, _, _, _)
CodeBlocksLoop(t, code_blocks, k, chunks, last_end) ==
    IF k > Len(code_blocks)
    THEN SplitIfNotBlank(chunks, Slice(t, last_end, Len(t)))
    ELSE CodeBlocksLoop(t, code_blocks, k + 1,
                        AfterMatch(t, chunks, last_end, code_blocks[k]),
                        code_blocks[k].end)

CodeAwareSplitText(t) ==
    IF FindIter(t) = <<>> THEN SplitText(t)
    ELSE CodeBlocksLoop(t, FindIter(t), 1, <<>>, 0)

(***************************************************************************)
(* TextSplitter.split_document, which CodeAwareTextSplitter inherits.      *)
(***************************************************************************)
\* The chunk made of the i-th piece (from 0) of a page.
PageChunk(chunk_content, filename, page_num, i) ==
    [content |-> chunk_content,
     metadata |-> [source |-> filename, page |-> page_num, chunk_index |-> i]]

\* The chunks of one page: self._recursive_split(content, self.separators),
\* numbered by enumerate.
PageChunks(page, filename) ==
    LET page_chunks == RecursiveSplit(page.content, DefaultSeparators)
    IN  [i \in 1..Len(page_chunks) |->
            PageChunk(page_chunks[i], filename, page.page_number, i - 1)]

\* `for page in document.get("pages", [])`, from the j-th page on.
RECURSIVE SplitPagesFrom(_, _, _)
SplitPagesFrom(pages, j, filename) ==
    IF j > Len(pages) THEN <<>>
    ELSE PageChunks(pages[j], filename) \o SplitPagesFrom(pages, j + 1, filename)

SplitDocument(document) ==
    SplitPagesFrom(document.pages, 1, document.filename)

\* The document upload_document makes of a text or markdown file: one page.
Parsed(filename, text_content) ==
    [filename |-> filename,
     pages |-> << [page_number |-> 1, content |-> text_content] >>]

(***************************************************************************)
(* The vector index is idle while the chunker runs, and the chunker while  *)
(* the index runs.                                                         *)
(***************************************************************************)
NoCall == [op |-> "none"]

NoSearch == [called |-> FALSE]

ServicesIdle ==
    /\ rag = <<>>
    /\ adders = <<>>
    /\ manager = <<>>
    /\ chat = <<>>

IndexIdle ==
    /\ store = <<>>
    /\ next_uid = 0
    /\ clock = 0
    /\ last = <<NoCall, NoCall>>
    /\ found = <<>>
    /\ asked = NoSearch
    /\ ServicesIdle

(***************************************************************************)
(* The chunker, one call at a time. A splitter is constructed with         *)
(* chunk_overlap < chunk_size, as both callers of the repository do        *)
(* (the defaults 500/50 and 800/100, and 500/50 in upload_document), and   *)
(* split_text is called once on a text. A text is a run of at most         *)
(* MaxTokens tokens: a letter, the separators the texts exercise, a tab,   *)
(* an indent of four spaces and a fence.                                   *)
(***************************************************************************)
Tokens == { <<"a">>, <<" ">>, <<"\n">>, <<".">>, <<"\t">>, FourSpaces, Fence }

RECURSIVE Concat(_)
Concat(ts) == IF ts = <<>> THEN <<>> ELSE Head(ts) \o Concat(Tail(ts))

Texts == { Concat(ts) : ts \in UNION { [1..n -> Tokens] : n \in 0..MaxTokens } }

ValidConfig == chunk_size >= 1 /\ chunk_overlap >= 0 /\ chunk_overlap < chunk_size

InitChunker ==
    /\ text \in Texts
    /\ chunk_size \in 1..MaxSize
    /\ chunk_overlap \in 0..(chunk_size - 1)
    /\ pc = "ready"
    /\ stack = <<>>
    /\ ret = <<>>
    /\ splitter = "none"
    /\ result = <<>>
    /\ IndexIdle

\* TextSplitter(chunk_size, chunk_overlap).split_text(text)
CallSplitText ==
    /\ pc = "ready"
    /\ stack = <<>>
    /\ result' = SplitText(text)
    /\ splitter' = "TextSplitter"
    /\ pc' = "done"
    /\ UNCHANGED <<text, chunk_size, chunk_overlap, stack, ret>>
    /\ UNCHANGED index_vars

\* CodeAwareTextSplitter(chunk_size, chunk_overlap).split_text(text)
CallCodeAwareSplitText ==
    /\ pc = "ready"
    /\ stack = <<>>
    /\ result' = CodeAwareSplitText(text)
    /\ splitter' = "CodeAwareTextSplitter"
    /\ pc' = "done"
    /\ UNCHANGED <<text, chunk_size, chunk_overlap, stack, ret>>
    /\ UNCHANGED index_vars

\* CodeAwareTextSplitter(chunk_size, chunk_overlap).split_document(parsed),
\* as upload_document calls it on an uploaded text file
CallCodeAwareSplitDocument ==
    /\ pc = "ready"
    /\ stack = <<>>
    /\ result' = SplitDocument(Parsed("file.md", text))
    /\ splitter' = "CodeAwareTextSplitter.split_document"
    /\ pc' = "done"
    /\ UNCHANGED <<text, chunk_size, chunk_overlap, stack, ret>>
    /\ UNCHANGED index_vars

NextChunker ==
    \/ CallSplitText
    \/ CallCodeAwareSplitText
    \/ CallCodeAwareSplitDocument

SpecChunker == InitChunker /\ [][NextChunker]_vars

(***************************************************************************)
(* The general splitter, step by step: the constructor, then one call of   *)
(* split_text run as its loops run, with the calls of _recursive_split on  *)
(* a stack. The top frame is the running call; pc says where it is:        *)
(*   "enter"   at the top of _recursive_split                              *)
(*   "loop"    in `for split in splits`                                    *)
(*   "window"  in the while loop of _split_by_size                         *)
(*   "return"  about to return `ret` to its caller                         *)
(* The frames below the top wait at their recursive call. A frame also     *)
(* remembers, in `flushed`, the buffer that was saved when current_chunk   *)
(* was started, as long as current_chunk is the buffer started then.       *)
(***************************************************************************)
StepAlphabet == {"a", " ", "\n", "."}

StepTexts == UNION { [1..n -> StepAlphabet] : n \in 0..MaxLen }

Frame(t, separators) ==
    [text |-> t, separators |-> separators, separator |-> <<>>,
     finer |-> <<>>, splits |-> <<>>, k |-> 0, chunks |-> <<>>,
     current_chunk |-> <<>>, start |-> 0, flushed |-> <<>>]

Top == stack[Len(stack)]

SetTop(f) == [stack EXCEPT ![Len(stack)] = f]

InitSteps ==
    /\ text \in StepTexts
    /\ chunk_size = 0
    /\ chunk_overlap = 0
    /\ pc = "new"
    /\ stack = <<>>
    /\ ret = <<>>
    /\ splitter = "none"
    /\ result = <<>>
    /\ IndexIdle

\* TextSplitter.__init__(chunk_size, chunk_overlap): the arguments are
\* stored as they come; no pair is rejected.
Construct ==
    /\ pc = "new"
    /\ \E size \in 1..MaxSize, overlap \in 0..MaxSize :
          /\ chunk_size' = size
          /\ chunk_overlap' = overlap
    /\ pc' = "ready"
    /\ UNCHANGED <<text, stack, ret, splitter, result>>
    /\ UNCHANGED index_vars

\* split_text calls self._recursive_split(text, self.separators)
EnterSplitText ==
    /\ pc = "ready"
    /\ stack' = << Frame(text, DefaultSeparators) >>
    /\ splitter' = "TextSplitter"
    /\ pc' = "enter"
    /\ UNCHANGED <<text, chunk_size, chunk_overlap, ret, result>>
    /\ UNCHANGED index_vars

\* _recursive_split: `if not text` and `if len(text) <= self.chunk_size`
ReturnSmall ==
    /\ pc = "enter"
    /\ Top.text = <<>> \/ IsSmall(Top.text)
    /\ ret' = SmallResult(Top.text)
    /\ pc' = "return"
    /\ UNCHANGED <<text, chunk_size, chunk_overlap, stack, splitter, result>>
    /\ UNCHANGED index_vars

\* The frame once the text is split on the chosen separator, the loop
\* `for split in splits` about to start.
SplitOnSeparator(f) ==
    LET i == ChosenSeparator(f.text, f.separators)
    IN  [f EXCEPT !.separator = f.separators[i],
                  !.finer = FinerSeparators(f.separators, i),
                  !.splits = Split(f.text, f.separators[i]),
                  !.k = 1,
                  !.chunks = <<>>,
                  !.current_chunk = <<>>,
                  !.flushed = <<>>]

\* _recursive_split: the separator loop reaches "" or runs out, and the
\* text goes to _split_by_size
EnterSplitBySize ==
    /\ pc = "enter"
    /\ ~(Top.text = <<>> \/ IsSmall(Top.text))
    /\ FallsBack(Top.text, Top.separators)
    /\ stack' = SetTop([Top EXCEPT !.start = 0, !.chunks = <<>>])
    /\ pc' = "window"
    /\ UNCHANGED <<text, chunk_size, chunk_overlap, ret, splitter, result>>
    /\ UNCHANGED index_vars

\* _recursive_split: a separator occurs in the text, which is split on it
EnterLoop ==
    /\ pc = "enter"
    /\ ~(Top.text = <<>> \/ IsSmall(Top.text))
    /\ ~FallsBack(Top.text, Top.separators)
    /\ stack' = SetTop(SplitOnSeparator(Top))
    /\ pc' = "loop"
    /\ UNCHANGED <<text, chunk_size, chunk_overlap, ret, splitter, result>>
    /\ UNCHANGED index_vars

\* for split in splits: the piece fits into current_chunk
LoopAppend ==
    /\ pc = "loop"
    /\ Top.k <= Len(Top.splits)
    /\ LET piece == Piece(Top.splits[Top.k], Top.separator)
       IN  /\ Fits(Top.current_chunk, piece)
           /\ stack' = SetTop([Top EXCEPT
                                 !.current_chunk = Top.current_chunk \o piece,
                                 !.k = Top.k + 1])
    /\ UNCHANGED <<text, chunk_size, chunk_overlap, pc, ret, splitter, result>>
    /\ UNCHANGED index_vars

\* for split in splits: the piece does not fit; current_chunk is saved and
\* a new one started, which is small enough
LoopFlush ==
    /\ pc = "loop"
    /\ Top.k <= Len(Top.splits)
    /\ LET piece == Piece(Top.splits[Top.k], Top.separator)
           started == StartChunk(Top.current_chunk, piece)
       IN  /\ ~Fits(Top.current_chunk, piece)
           /\ ~TooLarge(started)
           /\ stack' = SetTop([Top EXCEPT
                                 !.chunks = Keep(Top.chunks, Top.current_chunk),
                                 !.current_chunk = started,
                                 !.flushed = Top.current_chunk,
                                 !.k = Top.k + 1])
    /\ UNCHANGED <<text, chunk_size, chunk_overlap, pc, ret, splitter, result>>
    /\ UNCHANGED index_vars

\* for split in splits: the new current_chunk is too large, and
\* self._recursive_split(current_chunk, separators[i+1:]) is called
LoopRecurse ==
    /\ pc = "loop"
    /\ Top.k <= Len(Top.splits)
    /\ LET piece == Piece(Top.splits[Top.k], Top.separator)
           started == StartChunk(Top.current_chunk, piece)
       IN  /\ ~Fits(Top.current_chunk, piece)
           /\ TooLarge(started)
           /\ stack' = Append(SetTop([Top EXCEPT
                                 !.chunks = Keep(Top.chunks, Top.current_chunk),
                                 !.current_chunk = started,
                                 !.flushed = Top.current_chunk]),
                              Frame(started, Top.finer))
    /\ pc' = "enter"
    /\ UNCHANGED <<text, chunk_size, chunk_overlap, ret, splitter, result>>
    /\ UNCHANGED index_vars

\* after the loop: "Don't forget the last chunk", and return chunks
LoopEnd ==
    /\ pc = "loop"
    /\ Top.k > Len(Top.splits)
    /\ ret' = Keep(Top.chunks, Top.current_chunk)
    /\ pc' = "return"
    /\ UNCHANGED <<text, chunk_size, chunk_overlap, stack, splitter, result>>
    /\ UNCHANGED index_vars

\* A run of the while loop that has outlived every run that ends: with
\* chunk_overlap < chunk_size the loop ends within len(text) iterations,
\* keeping at most one chunk in each. The model stops following such a run.
WindowCap(f) == Len(f.chunks) <= Len(f.text) /\ f.start + Len(f.text) >= 0

\* _split_by_size: one iteration of `while start < len(text)`
WindowStep ==
    /\ pc = "window"
    /\ Top.start < Len(Top.text)
    /\ WindowCap(Top)
    /\ stack' = SetTop([Top EXCEPT
                          !.chunks = Keep(Top.chunks, Window(Top.text, Top.start)),
                          !.start = NextStart(Top.start)])
    /\ UNCHANGED <<text, chunk_size, chunk_overlap, pc, ret, splitter, result>>
    /\ UNCHANGED index_vars

\* _split_by_size: the loop ends; its chunks are what _recursive_split returns
WindowEnd ==
    /\ pc = "window"
    /\ Top.start >= Len(Top.text)
    /\ ret' = Top.chunks
    /\ pc' = "return"
    /\ UNCHANGED <<text, chunk_size, chunk_overlap, stack, splitter, result>>
    /\ UNCHANGED index_vars

\* a recursive call returns sub_chunks to the loop that made it
ReturnToLoop ==
    /\ pc = "return"
    /\ Len(stack) > 1
    /\ LET caller == stack[Len(stack) - 1]
           a == AfterSubSplit(caller.chunks, caller.current_chunk, ret)
       IN  stack' = Append(SubSeq(stack, 1, Len(stack) - 2),
                           [caller EXCEPT !.chunks = a.chunks,
                                          !.current_chunk = a.current_chunk,
                                          !.flushed = IF ret # <<>> THEN <<>>
                                                      ELSE caller.flushed,
                                          !.k = caller.k + 1])
    /\ pc' = "loop"
    /\ UNCHANGED <<text, chunk_size, chunk_overlap, ret, splitter, result>>
    /\ UNCHANGED index_vars

\* the outermost call returns to split_text, which numbers the chunks
ReturnToSplitText ==
    /\ pc = "return"
    /\ Len(stack) = 1
    /\ result' = [i \in 1..Len(ret) |-> ChunkData(ret[i], i - 1)]
    /\ stack' = <<>>
    /\ pc' = "done"
    /\ UNCHANGED <<text, chunk_size, chunk_overlap, ret, splitter>>
    /\ UNCHANGED index_vars

NextSteps ==
    \/ Construct
    \/ EnterSplitText
    \/ ReturnSmall
    \/ EnterSplitBySize
    \/ EnterLoop
    \/ LoopAppend
    \/ LoopFlush
    \/ LoopRecurse
    \/ LoopEnd
    \/ WindowStep
    \/ WindowEnd
    \/ ReturnToLoop
    \/ ReturnToSplitText

\* A call that has been made keeps running: the interpreter does not stop
\* in the middle of a loop.
SpecSteps == InitSteps /\ [][NextSteps]_vars /\ WF_vars(NextSteps)

(***************************************************************************)
(* The scenario of the default configuration: chunk_size 500, overlap 50,  *)
(* and a document of 1200 characters with paragraph breaks at offsets 600  *)
(* and 900. Each of the three paragraphs repeats one of a few fillings:    *)
(* letters only, or letters with a space, a period or a tab among them.    *)
(***************************************************************************)
DefaultChunkSize == 500
DefaultChunkOverlap == 50

Fillings ==
    { <<"a">>, <<"a", "b", "c">>,
      <<"a", "b", "c", "d", "e", "f", "g", "h", "i", "j", "k", " ">>,
      <<"a", "b", "c", "d", "e", "f", "g", "h", "i", "j", "k", "l", "m", "n",
        "o", "p", "q", "r", "s", "t", "u", "v", "w", "x", "y", "z", ".">>,
      <<"a", "b", "c", "d", "e", "f", "\t">> }

\* n characters that repeat the filling
Paragraph(n, filling) ==
    [j \in 1..n |-> filling[((j - 1) % Len(filling)) + 1]]

ParagraphBreak == <<"\n", "\n">>

ScenarioDocument(f1, f2, f3) ==
    Paragraph(600, f1) \o ParagraphBreak \o Paragraph(298, f2)
        \o ParagraphBreak \o Paragraph(298, f3)

InitScenario ==
    /\ \E f1 \in Fillings, f2 \in Fillings, f3 \in Fillings :
          text = ScenarioDocument(f1, f2, f3)
    /\ chunk_size = DefaultChunkSize
    /\ chunk_overlap = DefaultChunkOverlap
    /\ pc = "ready"
    /\ stack = <<>>
    /\ ret = <<>>
    /\ splitter = "none"
    /\ result = <<>>
    /\ IndexIdle

NextScenario == CallSplitText

SpecScenario == InitScenario /\ [][NextScenario]_vars

(***************************************************************************)
(* The vector index (VectorStoreManager). The collection is the sequence   *)
(* of its entries in insertion order. The embedding function and the       *)
(* collection belong to libraries: the model keeps of them what the calls  *)
(* of vectorstore.py rely on. Distances and relevance scores are counted   *)
(* in tenths.                                                              *)
(***************************************************************************)
DocumentIds == {"doc1", "doc2"}

ChunkContents == {"x", "y"}

\* Two of the distances a collection created without hnsw:space metadata
\* reports for normalized embeddings: 0.0 and 1.5.
Distances == {0, 15}

\* chunk dicts with their 'content'
ChunkLists ==
    UNION { [1..n -> [content : ChunkContents]] : n \in 0..MaxChunks }

ChunkerIdle ==
    /\ text = <<>>
    /\ chunk_size = DefaultChunkSize
    /\ chunk_overlap = DefaultChunkOverlap
    /\ pc = "ready"
    /\ stack = <<>>
    /\ ret = <<>>
    /\ splitter = "none"
    /\ result = <<>>

InitIndex ==
    /\ ChunkerIdle
    /\ store = <<>>
    /\ next_uid = 0
    /\ clock = 0
    /\ last = <<NoCall, NoCall>>
    /\ found = <<>>
    /\ asked = NoSearch
    /\ ServicesIdle

\* f"{document_id}_{i}": i is the run of digits after the last underscore,
\* so the string determines the pair and the pair the string.
ChunkId(document_id, i) == <<document_id, i>>

\* chunk.get("metadata", {})
ChunkMetadata(chunk) ==
    IF "metadata" \in DOMAIN chunk THEN chunk.metadata ELSE <<>>

\* A Document that is handed over before its added_at is set.
DocumentWithoutStamp(chunk, document_id, i, now) ==
    [page_content |-> chunk.content,
     metadata |->
        [key \in DOMAIN ChunkMetadata(chunk) \cup {"document_id", "chunk_id"} |->
            CASE key = "document_id" -> document_id
              [] key = "chunk_id" -> ChunkId(document_id, i)
              [] OTHER -> ChunkMetadata(chunk)[key]]]

\* The Document built for chunk i, counted from 0 as enumerate does: the
\* metadata of the chunk with document_id, chunk_id and added_at set.
StampedDocument(chunk, document_id, i, now) ==
    [page_content |-> chunk.content,
     metadata |->
        [key \in DOMAIN ChunkMetadata(chunk)
                    \cup {"document_id", "chunk_id", "added_at"} |->
            CASE key = "document_id" -> document_id
              [] key = "chunk_id" -> ChunkId(document_id, i)
              [] key = "added_at" -> now
              [] OTHER -> ChunkMetadata(chunk)[key]]]

\* datetime.now() is read once per chunk.
Documents(chunks, document_id) ==
    [j \in 1..Len(chunks) |->
        StampedDocument(chunks[j], document_id, j - 1, clock + (j - 1))]

\* A store that keys each entry by its position in the call.
EntriesKeyedByPosition(documents) ==
    [j \in 1..Len(documents) |->
        [id |-> j - 1,
         content |-> documents[j].page_content,
         metadata |-> documents[j].metadata]]

\* The Documents carry no id and add_documents passes none: the store
\* gives each entry an id of its own.
NewEntries(documents) ==
    [j \in 1..Len(documents) |->
        [id |-> next_uid + (j - 1),
         content |-> documents[j].page_content,
         metadata |-> documents[j].metadata]]

\* A store that writes each entry as soon as its text is embedded.
UpsertedAsEmbedded(documents, fail_at) ==
    IF fail_at = 0 THEN NewEntries(documents)
    ELSE SubSeq(NewEntries(documents), 1, fail_at - 1)

\* store.add_documents(documents) embeds every text and then upserts all
\* entries in one call. fail_at = 0: the embedding succeeds; fail_at = j:
\* it raises at text j, before anything is written.
Upserted(documents, fail_at) ==
    IF fail_at = 0 THEN NewEntries(documents) ELSE <<>>

\* The record of an add or delete call: its arguments, the collection it
\* found, and what it returned unless it raised.
CallRecord(op, document_id, chunks, fail_at, count) ==
    [op |-> op, document_id |-> document_id, chunks |-> chunks,
     raised |-> fail_at # 0, fail_at |-> fail_at, ret |-> count,
     before |-> store]

Remember(call) == last' = <<last[2], call>>

\* _collection.upsert(ids, ...): an entry whose id is stored is replaced
\* where it is, the others are appended in order.
CollectionUpsert(collection, entries) ==
    [j \in 1..Len(collection) |->
        IF \E e \in 1..Len(entries) : entries[e].id = collection[j].id
        THEN entries[CHOOSE e \in 1..Len(entries) :
                        /\ entries[e].id = collection[j].id
                        /\ \A f \in (e + 1)..Len(entries) :
                              entries[f].id # collection[j].id]
        ELSE collection[j]]
    \o SelectSeq(entries,
            LAMBDA n : \A j \in 1..Len(collection) : collection[j].id # n.id)

\* One call add_documents(chunks, document_id); fail_at tells whether and
\* where the embedding fails.
AddDocumentsCall(chunks, document_id, fail_at) ==
    /\ fail_at <= Len(chunks)
    /\ clock + Len(chunks) <= MaxStamps
    /\ IF chunks = <<>>
       THEN /\ UNCHANGED <<store, next_uid, clock>>
            /\ Remember(CallRecord("add", document_id, chunks, 0, 0))
       ELSE LET documents == Documents(chunks, document_id)
                entries == Upserted(documents, fail_at)
            IN  /\ store' = CollectionUpsert(store, entries)
                /\ next_uid' = next_uid + Len(entries)
                /\ clock' = clock + Len(chunks)
                /\ Remember(CallRecord("add", document_id, chunks, fail_at,
                                IF fail_at = 0 THEN Len(documents) ELSE 0))
    /\ found' = <<>>
    /\ asked' = NoSearch
    /\ UNCHANGED service_vars
    /\ UNCHANGED chunker_vars

\* add_documents(chunks, document_id)
AddDocuments ==
    \E chunks \in ChunkLists, document_id \in DocumentIds,
       fail_at \in 0..MaxChunks :
        AddDocumentsCall(chunks, document_id, fail_at)

\* _collection.get(where={"document_id": document_id})["ids"], cut to its
\* first id.
FirstIdWhere(document_id) ==
    LET hits == SelectSeq(store,
                    LAMBDA e : e.metadata.document_id = document_id)
    IN  [j \in 1..(IF hits = <<>> THEN 0 ELSE 1) |-> hits[j].id]

\* _collection.get(where={"document_id": document_id})["ids"]
IdsWhere(document_id) ==
    LET hits == SelectSeq(store,
                    LAMBDA e : e.metadata.document_id = document_id)
    IN  [j \in 1..Len(hits) |-> hits[j].id]

\* A delete that takes the ids for a range: every entry up to the last id
\* goes.
CollectionDeleteThrough(ids) ==
    SelectSeq(store,
        LAMBDA e : \A j \in 1..Len(ids) : e.id > ids[j])

\* _collection.delete(ids=ids)
CollectionDelete(ids) ==
    SelectSeq(store,
        LAMBDA e : \A j \in 1..Len(ids) : e.id # ids[j])

\* delete_document(document_id)
DeleteDocument ==
    \E document_id \in DocumentIds :
        LET ids == IdsWhere(document_id)
        IN  /\ store' = IF ids # <<>> THEN CollectionDelete(ids) ELSE store
            /\ Remember(CallRecord("delete", document_id, <<>>, 0, Len(ids)))
            /\ found' = <<>>
            /\ asked' = NoSearch
            /\ UNCHANGED <<next_uid, clock>>
            /\ UNCHANGED service_vars
            /\ UNCHANGED chunker_vars

\* meta.get(key, default)
MetaGet(meta, key, default) ==
    IF key \in DOMAIN meta THEN meta[key] ELSE default

\* _collection.get(include=["metadatas"])["metadatas"]
Metadatas(collection) ==
    [j \in 1..Len(collection) |-> collection[j].metadata]

\* Statistics that count a document once per entry.
StatsPerEntry(collection) ==
    [total_chunks |-> Len(collection),
     total_documents |-> Len(Metadatas(collection))]

\* get_stats() of a collection: count(), and the size of the set the loop
\* over the metadatas collects the document_id values in.
StatsOf(collection) ==
    [total_chunks |-> Len(collection),
     total_documents |->
        Cardinality({ Metadatas(collection)[j].document_id :
                        j \in { i \in 1..Len(collection) :
                            "document_id" \in DOMAIN Metadatas(collection)[i] } })]

\* get_stats()
GetStats == StatsOf(store)

\* A listing that stamps a row again at every entry of its document.
LatestAddedAt(row, meta) == MetaGet(meta, "added_at", "Unknown")

\* The added_at of a row is set when the row is created and stays.
KeptAddedAt(row, meta) == row.added_at

\* documents[doc_id]["chunk_count"] += 1
CountedIn(row, meta) ==
    [id |-> row.id, source |-> row.source,
     chunk_count |-> row.chunk_count + 1,
     added_at |-> KeptAddedAt(row, meta)]

\* The row made for the first entry of a document, before it is counted.
NewRow(meta) ==
    [id |-> meta.document_id,
     source |-> MetaGet(meta, "source", "Unknown"),
     chunk_count |-> 0,
     added_at |-> MetaGet(meta, "added_at", "Unknown")]

\* The loop of list_documents over the metadatas from position j on;
\* documents holds the rows in the order their keys entered the dict.
RECURSIVE ListDocumentsFrom(_, _, _)
ListDocumentsFrom(metadatas, j, documents) ==
    IF j > Len(metadatas) THEN documents
    ELSE LET meta == metadatas[j]
         IN  IF "document_id" \notin DOMAIN meta
             THEN ListDocumentsFrom(metadatas, j + 1, documents)
             ELSE IF \E r \in 1..Len(documents) :
                        documents[r].id = meta.document_id
             THEN ListDocumentsFrom(metadatas, j + 1,
                      [r \in 1..Len(documents) |->
                          IF documents[r].id = meta.document_id
                          THEN CountedIn(documents[r], meta)
                          ELSE documents[r]])
             ELSE ListDocumentsFrom(metadatas, j + 1,
                      Append(documents, CountedIn(NewRow(meta), meta)))

\* list_documents()
ListDocuments == ListDocumentsFrom(Metadatas(store), 1, <<>>)

\* A metadata filter is a set of <<key, value>> pairs; no filter is the
\* empty set.
Filters == { {} } \cup { { <<"document_id", d>> } : d \in DocumentIds }

Satisfies(metadata, filter) ==
    \A kv \in filter : metadata[kv[1]] = kv[2]

\* The embedding function places a query at some distance of each content.
Queries == [ChunkContents -> Distances]

\* similarity_search_with_score(query, k, filter): the positions of the k
\* nearest entries that satisfy the filter, nearest first. The store fixes
\* no order among entries at the same distance.
NearestPositions(distance, k, filter) ==
    LET candidates == { j \in 1..Len(store) :
                            Satisfies(store[j].metadata, filter) }
        m == IF Cardinality(candidates) < k
             THEN Cardinality(candidates) ELSE k
    IN  { r \in [1..m -> candidates] :
            /\ \A a, b \in 1..m : a < b =>
                  /\ r[a] # r[b]
                  /\ distance[store[r[a]].content]
                        <= distance[store[r[b]].content]
            /\ \A j \in candidates :
                  (\A a \in 1..m : r[a] # j) =>
                      \A a \in 1..m : distance[store[r[a]].content]
                                         <= distance[store[j].content] }

\* One result of search: relevance_score is 1 - score.
SearchResult(entry, score) ==
    [content |-> entry.content,
     metadata |-> entry.metadata,
     relevance_score |-> 10 - score]

\* search(query, k, filter_metadata)
Search ==
    \E query \in Queries, k \in 1..MaxChunks, filter \in Filters :
        \E r \in NearestPositions(query, k, filter) :
            /\ found' = [a \in 1..Len(r) |->
                            SearchResult(store[r[a]], query[store[r[a]].content])]
            /\ asked' = [called |-> TRUE, k |-> k, filter |-> filter]
            /\ UNCHANGED <<store, next_uid, clock, last>>
            /\ UNCHANGED service_vars
            /\ UNCHANGED chunker_vars

NextIndex == AddDocuments \/ DeleteDocument \/ Search

SpecIndex == InitIndex /\ [][NextIndex]_vars

(***************************************************************************)
(* The services: KnowledgeService.add_document and RAGService.query /     *)
(* query_sync, one step of a call at a time. The fixed texts of the        *)
(* service are Chinese; they are written here by what they say.            *)
(***************************************************************************)
Sources == {"a", "a1"}

Pages == {1, 11}

\* The chunks split_document makes of the pages of a file.
PageChunkLists ==
    UNION { [1..n -> [content : ChunkContents, metadata : [page : Pages]]] :
                n \in 1..MaxChunks }

\* chunk["metadata"]["source"] = filename, for every chunk
WithSource(chunks, filename) ==
    [j \in 1..Len(chunks) |->
        [content |-> chunks[j].content,
         metadata |->
            [key \in DOMAIN ChunkMetadata(chunks[j]) \cup {"source"} |->
                IF key = "source" THEN filename
                ELSE ChunkMetadata(chunks[j])[key]]]]

\* KnowledgeService.add_document(chunks, document_id, filename)
KnowledgeAddDocument ==
    \E chunks \in PageChunkLists, document_id \in DocumentIds,
       filename \in Sources, fail_at \in 0..MaxChunks :
        /\ clock + Len(chunks) <= MaxIndexed
        /\ AddDocumentsCall(WithSource(chunks, filename), document_id, fail_at)

\* The call record of RAGService.query: where the call is, its arguments,
\* its locals, the steps it has taken and what the generation was given
\* and gave.
IdleQuery ==
    [pc |-> "idle", mode |-> "none", k |-> 0, include_sources |-> FALSE,
     context_chunks |-> <<>>, context |-> "", steps |-> <<>>,
     generations |-> 0, prompt_context |-> "", output |-> "",
     failed |-> FALSE, has_result |-> FALSE, result |-> <<>>]

NoContextMessage == "no relevant material found"

\* A check that never takes the early return.
NeverNoContext(context_chunks) == FALSE

\* if not context_chunks
HasNoContext(context_chunks) == context_chunks = <<>>

\* The result of lines 49-53 and 94-98.
NoContextResult ==
    [answer |-> NoContextMessage, sources |-> <<>>, has_context |-> FALSE]

\* str(page) of chunk["metadata"].get("page", "N/A")
PageText(metadata) ==
    IF "page" \in DOMAIN metadata THEN ToString(metadata.page) ELSE "N/A"

SourceText(metadata) == MetaGet(metadata, "source", "Unknown")

\* enumerate(chunks) counts from 0.
ReferenceNumberFromZero(j) == j - 1

\* enumerate(chunks, 1): the number of the chunk at position j
ReferenceNumber(j) == j

\* One part of the context: reference number, source and page, content.
ContextPart(j, chunk) ==
    "[reference " \o ToString(ReferenceNumber(j)) \o "]\n"
        \o "source: " \o SourceText(chunk.metadata)
        \o ", page " \o PageText(chunk.metadata) \o "\n"
        \o "content: " \o chunk.content \o "\n"

\* separator.join(parts)
RECURSIVE Join(_, _)
Join(parts, separator) ==
    IF parts = <<>> THEN ""
    ELSE IF Len(parts) = 1 THEN parts[1]
    ELSE parts[1] \o separator \o Join(Tail(parts), separator)

\* _format_context(chunks)
FormatContext(chunks) ==
    Join([j \in 1..Len(chunks) |-> ContextPart(j, chunks[j])], "\n")

\* A key that puts nothing between source and page.
SourceKeyUnseparated(source, page_text) == source \o page_text

\* key = f"{source}_{page}"
SourceKey(source, page_text) == source \o "_" \o page_text

\* chunk["content"][:150] + "..." ; the contents of the model are shorter
\* than 150 characters.
Preview(content) == content \o "..."

\* The reference appended for a chunk.
SourceReference(chunk) ==
    [source |-> "<<" \o SourceText(chunk.metadata) \o ">> page "
                    \o PageText(chunk.metadata),
     content |-> Preview(chunk.content),
     relevance_score |-> MetaGet(chunk, "relevance_score", 0)]

\* The loop of _format_sources from position j on, with the keys seen.
RECURSIVE FormatSourcesFrom(_, _, _, _)
FormatSourcesFrom(chunks, j, seen, sources) ==
    IF j > Len(chunks) THEN sources
    ELSE LET key == SourceKey(SourceText(chunks[j].metadata),
                              PageText(chunks[j].metadata))
         IN  IF key \notin seen
             THEN FormatSourcesFrom(chunks, j + 1, seen \cup {key},
                      Append(sources, SourceReference(chunks[j])))
             ELSE FormatSourcesFrom(chunks, j + 1, seen, sources)

\* _format_sources(chunks)
FormatSources(chunks) == FormatSourcesFrom(chunks, 1, {}, <<>>)

\* What generation can give back.
GenerationOutputs == {"answer 1", "answer 2"}

\* The result of a search, as search returns it.
SearchResults(query, r) ==
    [a \in 1..Len(r) |->
        SearchResult(store[r[a]], query[store[r[a]].content])]

\* Lines 44-45 / 90-91: a call starts with search_with_sources(question, k).
QuerySearch ==
    \E query \in Queries, k \in 1..MaxChunks, include_sources \in BOOLEAN,
       mode \in {"query", "query_sync"} :
        \E r \in NearestPositions(query, k, {}) :
            /\ rag.pc \in {"idle", "returned", "raised"}
            /\ rag' = [IdleQuery EXCEPT
                          !.pc = "searched", !.mode = mode, !.k = k,
                          !.include_sources = include_sources,
                          !.context_chunks = SearchResults(query, r),
                          !.steps = <<"search">>]
            /\ found' = SearchResults(query, r)
            /\ asked' = [called |-> TRUE, k |-> k, filter |-> {}]
            /\ UNCHANGED <<store, next_uid, clock, last, adders, manager, chat>>
            /\ UNCHANGED chunker_vars

\* Lines 47-53 / 93-98: nothing was found.
QueryNoContext ==
    /\ rag.pc = "searched"
    /\ HasNoContext(rag.context_chunks)
    /\ rag' = [rag EXCEPT !.pc = "returned", !.has_result = TRUE,
                          !.result = NoContextResult,
                          !.steps = Append(@, "return")]
    /\ UNCHANGED <<store, next_uid, clock, last, found, asked, adders, manager, chat>>
    /\ UNCHANGED chunker_vars

\* Lines 56 / 101
QueryFormat ==
    /\ rag.pc = "searched"
    /\ ~ HasNoContext(rag.context_chunks)
    /\ rag' = [rag EXCEPT !.pc = "formatted",
                          !.context = FormatContext(rag.context_chunks),
                          !.steps = Append(@, "format")]
    /\ UNCHANGED <<store, next_uid, clock, last, found, asked, adders, manager, chat>>
    /\ UNCHANGED chunker_vars

\* A handler that answers a failed generation with the no-context result.
FallenBack(call) ==
    [call EXCEPT !.pc = "returned", !.failed = TRUE, !.has_result = TRUE,
                 !.result = NoContextResult]

\* The exception of the chain leaves query: nothing catches it.
Propagated(call) == [call EXCEPT !.pc = "raised", !.failed = TRUE]

\* Lines 59-69 / 103-112: the chain is invoked once with the context; it
\* gives an answer or raises.
QueryGenerate ==
    /\ rag.pc = "formatted"
    /\ \E outcome \in GenerationOutputs \cup {"raises"} :
          LET invoked == [rag EXCEPT !.generations = @ + 1,
                                     !.prompt_context = rag.context,
                                     !.steps = Append(@, "generate")]
          IN  rag' = IF outcome = "raises" THEN Propagated(invoked)
                     ELSE [invoked EXCEPT !.pc = "generated",
                                          !.output = outcome]
    /\ UNCHANGED <<store, next_uid, clock, last, found, asked, adders, manager, chat>>
    /\ UNCHANGED chunker_vars

\* Lines 72-80 / 114-122
QueryResult(call) ==
    IF call.include_sources
    THEN [answer |-> call.output, has_context |-> TRUE,
          sources |-> FormatSources(call.context_chunks)]
    ELSE [answer |-> call.output, has_context |-> TRUE]

QueryReturn ==
    /\ rag.pc = "generated"
    /\ rag' = [rag EXCEPT !.pc = "returned", !.has_result = TRUE,
                          !.result = QueryResult(rag),
                          !.steps = Append(@, "return")]
    /\ UNCHANGED <<store, next_uid, clock, last, found, asked, adders, manager, chat>>
    /\ UNCHANGED chunker_vars

InitRag ==
    /\ ChunkerIdle
    /\ store = <<>>
    /\ next_uid = 0
    /\ clock = 0
    /\ last = <<NoCall, NoCall>>
    /\ found = <<>>
    /\ asked = NoSearch
    /\ rag = IdleQuery
    /\ adders = <<>>
    /\ manager = <<>>
    /\ chat = <<>>

NextRag ==
    \/ KnowledgeAddDocument
    \/ QuerySearch
    \/ QueryNoContext
    \/ QueryFormat
    \/ QueryGenerate
    \/ QueryReturn

SpecRag == InitRag /\ [][NextRag]_vars

(***************************************************************************)
(* Two add_documents calls that run side by side, each in a thread of its  *)
(* own. A call builds its Documents, then hands them to the store, which   *)
(* embeds them and upserts them in one step of its own.                    *)
(***************************************************************************)
Callers == {1, 2}

IdleAdder ==
    [pc |-> "idle", chunks |-> <<>>, document_id |-> "",
     documents |-> <<>>, ret |-> 0]

InitAdders ==
    /\ ChunkerIdle
    /\ store = <<>>
    /\ next_uid = 0
    /\ clock = 0
    /\ last = <<NoCall, NoCall>>
    /\ found = <<>>
    /\ asked = NoSearch
    /\ rag = <<>>
    /\ adders = [c \in Callers |-> IdleAdder]
    /\ manager = <<>>
    /\ chat = <<>>

\* A caller enters add_documents(chunks, document_id); the document_id is
\* not the one of the other caller.
BeginAdd(c) ==
    \E chunks \in ChunkLists, document_id \in DocumentIds :
        /\ adders[c].pc = "idle"
        /\ \A d \in Callers \ {c} : adders[d].document_id # document_id
        /\ adders' = [adders EXCEPT ![c] =
                        [IdleAdder EXCEPT !.pc = "called", !.chunks = chunks,
                                          !.document_id = document_id]]
        /\ UNCHANGED <<store, next_uid, clock, last, found, asked, rag, manager, chat>>
        /\ UNCHANGED chunker_vars

\* Lines 84-85: nothing to add.
ReturnZero(c) ==
    /\ adders[c].pc = "called"
    /\ adders[c].chunks = <<>>
    /\ adders' = [adders EXCEPT ![c].pc = "done", ![c].ret = 0]
    /\ UNCHANGED <<store, next_uid, clock, last, found, asked, rag, manager, chat>>
    /\ UNCHANGED chunker_vars

\* Lines 88-99: the Documents of the call.
PrepareDocuments(c) ==
    /\ adders[c].pc = "called"
    /\ adders[c].chunks # <<>>
    /\ clock + Len(adders[c].chunks) <= MaxStamps
    /\ adders' = [adders EXCEPT
                    ![c].pc = "prepared",
                    ![c].documents =
                        Documents(adders[c].chunks, adders[c].document_id)]
    /\ clock' = clock + Len(adders[c].chunks)
    /\ UNCHANGED <<store, next_uid, last, found, asked, rag, manager, chat>>
    /\ UNCHANGED chunker_vars

\* Lines 102-105: store.add_documents(documents), then the return.
StoreAddDocuments(c) ==
    \E fail_at \in 0..MaxChunks :
        LET entries == Upserted(adders[c].documents, fail_at)
        IN  /\ adders[c].pc = "prepared"
            /\ fail_at <= Len(adders[c].documents)
            /\ store' = CollectionUpsert(store, entries)
            /\ next_uid' = next_uid + Len(entries)
            /\ adders' = [adders EXCEPT
                            ![c].pc = IF fail_at = 0 THEN "done" ELSE "raised",
                            ![c].ret = IF fail_at = 0
                                       THEN Len(adders[c].documents) ELSE 0]
            /\ UNCHANGED <<clock, last, found, asked, rag, manager, chat>>
            /\ UNCHANGED chunker_vars

NextAdders ==
    \E c \in Callers :
        \/ BeginAdd(c)
        \/ ReturnZero(c)
        \/ PrepareDocuments(c)
        \/ StoreAddDocuments(c)

SpecAdders == InitAdders /\ [][NextAdders]_vars

(***************************************************************************)
(* The same calls with searches running beside them: a search is one       *)
(* query of the store, which answers it from the entries it holds then.    *)
(***************************************************************************)
NextAddSearch == NextAdders \/ Search

SpecAddSearch == InitAdders /\ [][NextAddSearch]_vars

(***************************************************************************)
(* The construction of the VectorStoreManager, VectorStoreManager() or     *)
(* get_vector_store(), by callers that run in threads of their own. The    *)
(* class keeps _instance; each object the class makes keeps its _client    *)
(* and _collection (None is 0 here). The persistent store is what is on    *)
(* disk under chroma_persist_dir: whether the collection exists, and its   *)
(* entries. `returned` collects the objects the calls have returned.       *)
(***************************************************************************)
Objects == 1..Cardinality(Callers)

IdleCaller == [pc |-> "idle", self |-> 0, opening |-> 0, calls |-> 0]

\* What a process can find on disk when it starts.
StoresOnDisk ==
    { [exists |-> FALSE, entries |-> <<>>],
      [exists |-> TRUE, entries |-> <<>>],
      [exists |-> TRUE, entries |-> <<"x">>],
      [exists |-> TRUE, entries |-> <<"x", "y">>] }

InitSingleton ==
    /\ ChunkerIdle
    /\ store = <<>>
    /\ next_uid = 0
    /\ clock = 0
    /\ last = <<NoCall, NoCall>>
    /\ found = <<>>
    /\ asked = NoSearch
    /\ rag = <<>>
    /\ adders = <<>>
    /\ \E disk \in StoresOnDisk :
          manager = [instance |-> 0, made |-> 0, opened |-> 0,
                     client |-> [o \in Objects |-> 0],
                     collection |-> [o \in Objects |-> 0],
                     disk |-> disk, at_start |-> disk.entries,
                     returned |-> {},
                     callers |-> [c \in Callers |-> IdleCaller]]
    /\ chat = <<>>

\* The step of a caller leaves everything but the manager as it is.
ManagerStep ==
    /\ UNCHANGED <<store, next_uid, clock, last, found, asked, rag, adders, chat>>
    /\ UNCHANGED chunker_vars

\* A caller evaluates VectorStoreManager()
CallManager(c) ==
    /\ manager.callers[c].pc \in {"idle", "done"}
    /\ manager.callers[c].calls < MaxCalls
    /\ manager' = [manager EXCEPT
                      !.callers[c].pc = "new",
                      !.callers[c].calls = manager.callers[c].calls + 1]
    /\ ManagerStep

\* __new__: if cls._instance is None
NewCheck(c) ==
    /\ manager.callers[c].pc = "new"
    /\ manager' = [manager EXCEPT
                      !.callers[c].pc = IF manager.instance = 0
                                        THEN "make" ELSE "return"]
    /\ ManagerStep

\* __new__: cls._instance = super().__new__(cls)
NewMake(c) ==
    /\ manager.callers[c].pc = "make"
    /\ manager' = [manager EXCEPT
                      !.made = manager.made + 1,
                      !.instance = manager.made + 1,
                      !.callers[c].pc = "return"]
    /\ ManagerStep

\* __new__: return cls._instance; __init__ runs on the object returned
NewReturn(c) ==
    /\ manager.callers[c].pc = "return"
    /\ manager' = [manager EXCEPT
                      !.callers[c].self = manager.instance,
                      !.callers[c].pc = "init"]
    /\ ManagerStep

\* __init__: if self._client is None; otherwise the call is over
InitCheck(c) ==
    /\ manager.callers[c].pc = "init"
    /\ LET self == manager.callers[c].self
       IN  manager' =
             IF manager.client[self] = 0
             THEN [manager EXCEPT !.callers[c].pc = "open"]
             ELSE [manager EXCEPT
                     !.callers[c].pc = "done",
                     !.returned = manager.returned \cup {self}]
    /\ ManagerStep

\* _init_client: os.makedirs and chromadb.PersistentClient(path=...)
OpenClient(c) ==
    /\ manager.callers[c].pc = "open"
    /\ manager' = [manager EXCEPT
                      !.opened = manager.opened + 1,
                      !.callers[c].opening = manager.opened + 1,
                      !.callers[c].pc = "assign"]
    /\ ManagerStep

\* _init_client: self._client = the client just opened
AssignClient(c) ==
    /\ manager.callers[c].pc = "assign"
    /\ manager' = [manager EXCEPT
                      !.client[manager.callers[c].self] =
                          manager.callers[c].opening,
                      !.callers[c].pc = "collection"]
    /\ ManagerStep

\* get_or_create_collection(name): the collection on disk is opened as it
\* is, or made empty when there is none
CollectionOnDisk(disk) ==
    IF disk.exists THEN disk ELSE [exists |-> TRUE, entries |-> <<>>]

\* _init_client: self._collection = get_or_create_collection(...), and the
\* call is over
GetOrCreateCollection(c) ==
    /\ manager.callers[c].pc = "collection"
    /\ LET self == manager.callers[c].self
       IN  manager' = [manager EXCEPT
                         !.disk = CollectionOnDisk(manager.disk),
                         !.collection[self] = manager.callers[c].opening,
                         !.callers[c].pc = "done",
                         !.returned = manager.returned \cup {self}]
    /\ ManagerStep

NextSingleton ==
    \E c \in Callers :
        \/ CallManager(c)
        \/ NewCheck(c)
        \/ NewMake(c)
        \/ NewReturn(c)
        \/ InitCheck(c)
        \/ OpenClient(c)
        \/ AssignClient(c)
        \/ GetOrCreateCollection(c)

SpecSingleton == InitSingleton /\ [][NextSingleton]_vars

(***************************************************************************)
(* The chat endpoint, POST /api/chat/, one request at a time, and the      *)
(* messages ChatHistoryService keeps in the database. A session is the     *)
(* sequence of its committed messages; the session with conversation_id n  *)
(* is the n-th one created. What the retrieval and the generation do is    *)
(* left open: the call returns an answer or raises.                        *)
(***************************************************************************)
Questions == {"q1", "q2"}

Answers == {"answer 1", NoContextMessage}

NoRequest == [pc |-> "idle"]

InitChat ==
    /\ ChunkerIdle
    /\ store = <<>>
    /\ next_uid = 0
    /\ clock = 0
    /\ last = <<NoCall, NoCall>>
    /\ found = <<>>
    /\ asked = NoSearch
    /\ rag = <<>>
    /\ adders = <<>>
    /\ manager = <<>>
    /\ \E api_key \in BOOLEAN :
          chat = [api_key |-> api_key, sessions |-> <<>>, served |-> 0,
                  request |-> NoRequest]

\* The step of a request leaves everything but the chat state as it is.
ChatStep ==
    /\ UNCHANGED <<store, next_uid, clock, last, found, asked, rag, adders,
                   manager>>
    /\ UNCHANGED chunker_vars

\* get_or_create_session(session_id): the session of that id when there is
\* one, a new session otherwise (0 is no conversation_id).
SessionFor(conversation_id) ==
    IF conversation_id \in 1..Len(chat.sessions) THEN conversation_id
    ELSE Len(chat.sessions) + 1

\* create_session commits the new session, which has no message yet.
SessionsWith(conversation_id) ==
    IF conversation_id \in 1..Len(chat.sessions) THEN chat.sessions
    ELSE Append(chat.sessions, <<>>)

\* A request arrives. Lines 53-57: without an API key it is answered 503.
\* Lines 60-65: otherwise its session is fetched or created.
ReceiveChat ==
    \E message \in Questions, conversation_id \in 0..MaxRequests,
       use_rag \in BOOLEAN :
        /\ chat.request.pc \in {"idle", "responded", "failed", "unavailable"}
        /\ chat.served < MaxRequests
        /\ chat' =
             IF ~chat.api_key
             THEN [chat EXCEPT !.served = chat.served + 1,
                               !.request = [pc |-> "unavailable"]]
             ELSE [chat EXCEPT
                     !.served = chat.served + 1,
                     !.sessions = SessionsWith(conversation_id),
                     !.request =
                        [pc |-> "session", message |-> message,
                         use_rag |-> use_rag,
                         conversation_id |-> SessionFor(conversation_id),
                         before |-> SessionsWith(conversation_id)
                                        [SessionFor(conversation_id)],
                         answer |-> ""]]
        /\ ChatStep

\* add_message(session_id, role, content): the message is added and
\* committed
WithMessage(sessions, conversation_id, role, content) ==
    [sessions EXCEPT ![conversation_id] =
        Append(sessions[conversation_id], [role |-> role, content |-> content])]

\* Lines 69-74: the user message is saved
SaveUserMessage ==
    /\ chat.request.pc = "session"
    /\ chat' = [chat EXCEPT
                   !.sessions = WithMessage(chat.sessions,
                                    chat.request.conversation_id,
                                    "user", chat.request.message),
                   !.request.pc = "asked"]
    /\ ChatStep

\* Lines 79-96 and 117-120: rag_service.query or chat_completion returns
AnswerReturns ==
    \E answer \in Answers :
        /\ chat.request.pc = "asked"
        /\ chat' = [chat EXCEPT !.request.pc = "answered",
                                !.request.answer = answer]
        /\ ChatStep

\* Lines 137-141: the retrieval or the generation raises, and the request
\* is answered 500
AnswerRaises ==
    /\ chat.request.pc = "asked"
    /\ chat' = [chat EXCEPT !.request.pc = "failed"]
    /\ ChatStep

\* Lines 99-112 and 123-135: the assistant message is saved and the
\* response returned
SaveAssistantMessage ==
    /\ chat.request.pc = "answered"
    /\ chat' = [chat EXCEPT
                   !.sessions = WithMessage(chat.sessions,
                                    chat.request.conversation_id,
                                    "assistant", chat.request.answer),
                   !.request.pc = "responded"]
    /\ ChatStep

NextChat ==
    \/ ReceiveChat
    \/ SaveUserMessage
    \/ AnswerReturns
    \/ AnswerRaises
    \/ SaveAssistantMessage

SpecChat == InitChat /\ [][NextChat]_vars

(***************************************************************************)
(* RAGService._format_sources on contents of any length. Here a content    *)
(* is a sequence of characters, as the texts of the chunker are, so that   *)
(* it can be cut; the call is made on the chunks of one search.            *)
(***************************************************************************)
PreviewLength == 150

Ellipsis == <<".", ".", ".">>

\* chunk["content"][:150] + "..."
PreviewOfText(content) == Slice(content, 0, PreviewLength) \o Ellipsis

\* The reference appended for a chunk.
TextSourceReference(chunk) ==
    [source |-> "<<" \o SourceText(chunk.metadata) \o ">> page "
                    \o PageText(chunk.metadata),
     content |-> PreviewOfText(chunk.content),
     relevance_score |-> MetaGet(chunk, "relevance_score", 0)]

\* The loop of _format_sources from position j on, with the keys seen.
RECURSIVE FormatTextSourcesFrom(_, _, _, _)
FormatTextSourcesFrom(chunks, j, seen, sources) ==
    IF j > Len(chunks) THEN sources
    ELSE LET key == SourceKey(SourceText(chunks[j].metadata),
                              PageText(chunks[j].metadata))
         IN  IF key \in seen
             THEN FormatTextSourcesFrom(chunks, j + 1, seen, sources)
             ELSE FormatTextSourcesFrom(chunks, j + 1, seen \cup {key},
                      Append(sources, TextSourceReference(chunks[j])))

FormatTextSources(chunks) == FormatTextSourcesFrom(chunks, 1, {}, <<>>)

\* Contents of every length up to MaxContent: one letter repeated, or three.
LongContents ==
    { Paragraph(n, filling) :
        n \in 0..MaxContent, filling \in { <<"a">>, <<"a", "b", "c">> } }

\* A search result with such a content.
FoundChunk(content, page) ==
    [content |-> content,
     metadata |-> [source |-> "a", page |-> page],
     relevance_score |-> 10]

InitPreview ==
    /\ ChunkerIdle
    /\ store = <<>>
    /\ next_uid = 0
    /\ clock = 0
    /\ last = <<NoCall, NoCall>>
    /\ found = <<>>
    /\ asked = NoSearch
    /\ \E content \in LongContents, page \in Pages :
          rag = [pc |-> "formatting",
                 context_chunks |-> << FoundChunk(content, page) >>,
                 sources |-> <<>>]
    /\ adders = <<>>
    /\ manager = <<>>
    /\ chat = <<>>

\* result["sources"] = self._format_sources(context_chunks)
FormatSourcesCall ==
    /\ rag.pc = "formatting"
    /\ rag' = [rag EXCEPT !.pc = "formatted",
                          !.sources = FormatTextSources(rag.context_chunks)]
    /\ UNCHANGED <<store, next_uid, clock, last, found, asked, adders,
                   manager, chat>>
    /\ UNCHANGED chunker_vars

NextPreview == FormatSourcesCall

SpecPreview == InitPreview /\ [][NextPreview]_vars

(***************************************************************************)
(* Properties of the chunker.                                              *)
(***************************************************************************)
Contents(chunks) == [i \in 1..Len(chunks) |-> chunks[i].content]

GeneralDone == pc = "done" /\ splitter = "TextSplitter"
CodeAwareDone == pc = "done" /\ splitter = "CodeAwareTextSplitter"

\* C1: with 0 <= chunk_overlap < chunk_size, every chunk the general
\* splitter returns is at most chunk_size characters long, the chunks that
\* come back from a recursive call on overlap + piece included.
ChunksWithinSize ==
    (GeneralDone /\ ValidConfig) =>
        \A i \in 1..Len(result) : Len(result[i].content) <= chunk_size

\* C1 witness: "a.aa" with chunk_size 2 and overlap 1. The piece "aa." does
\* not fit after "a.", the new buffer ".aa." is too large and goes through
\* the recursive call, whose windows come back as chunks.
ChunksWithinSizeWitness ==
    /\ GeneralDone
    /\ text = <<"a", ".", "a", "a">>
    /\ chunk_size = 2 /\ chunk_overlap = 1
    /\ Contents(result) = << <<"a", ".">>, <<".", "a">>, <<"a", "a">>,
                             <<"a", ".">>, <<".">> >>

\* C2: every chunk returned by either split_text has content that is not
\* empty after trimming whitespace.
ChunksNotBlank ==
    (GeneralDone \/ CodeAwareDone) => \A i \in 1..Len(result) : Strip(result[i].content) # <<>>

\* The characters of s that are not whitespace, in order.
NonWhitespace(s) == SelectSeq(s, LAMBDA c : c \notin Whitespace)

Max(S) == CHOOSE x \in S : \A y \in S : x >= y

\* The length of the overlap prefix a chunk shares with its predecessor: the
\* longest prefix of at most chunk_overlap characters that ends the
\* predecessor.
SharedOverlap(prev, cur) ==
    Max({k \in 0..chunk_overlap :
            /\ k <= Len(prev) /\ k <= Len(cur)
            /\ SubSeq(prev, Len(prev) - k + 1, Len(prev)) = SubSeq(cur, 1, k)})

\* The chunks' remainders after their overlap prefixes, concatenated.
RECURSIVE Remainders(_, _)
Remainders(contents, i) ==
    IF i > Len(contents) THEN <<>>
    ELSE (IF i = 1 THEN contents[1]
          ELSE LET k == SharedOverlap(contents[i-1], contents[i])
               IN  SubSeq(contents[i], k + 1, Len(contents[i])))
         \o Remainders(contents, i + 1)

\* C3: removing from each chunk the overlap prefix it shares with its
\* predecessor and concatenating the remainders gives exactly the
\* non-whitespace characters of the text.
NoDataLoss ==
    (GeneralDone /\ ValidConfig) =>
        NonWhitespace(Remainders(Contents(result), 1)) = NonWhitespace(text)

\* The fenced code blocks of a text: each fence paired with the next one.
RECURSIVE FencedBlocksFrom(_, _)
FencedBlocksFrom(t, p) ==
    LET open == Find(t, Fence, p)
        close == IF open = -1 THEN -1 ELSE Find(t, Fence, open + 3)
    IN  IF close = -1 THEN <<>>
        ELSE << Slice(t, open, close + 3) >> \o FencedBlocksFrom(t, close + 3)

FencedBlocks(t) == FencedBlocksFrom(t, 0)

\* C6: with the code-aware splitter every fenced code block of at most
\* 2 x chunk_size characters comes out as exactly one chunk with is_code
\* set whose content is the block, one chunk for each occurrence.
FencedBlocksKeptWhole ==
    CodeAwareDone =>
        \A b \in 1..Len(FencedBlocks(text)) :
            LET block == FencedBlocks(text)[b]
            IN  Len(block) <= 2 * chunk_size =>
                  Cardinality({i \in 1..Len(result) :
                                  result[i].is_code /\ result[i].content = block})
                  = Cardinality({c \in 1..Len(FencedBlocks(text)) :
                                  FencedBlocks(text)[c] = block})

\* C4: a splitter whose chunk_overlap is not below its chunk_size is never
\* constructed: no constructed splitter, and so none that reaches a split,
\* has chunk_overlap >= chunk_size.
ConfigCheckedAtConstruction ==
    pc # "new" => chunk_overlap < chunk_size

\* s is what is left of t after dropping some of its first elements.
IsProperSuffix(s, t) ==
    Len(s) < Len(t) /\ s = SubSeq(t, Len(t) - Len(s) + 1, Len(t))

\* C5, the recursion: every recursive call of _recursive_split gets a
\* strictly shorter suffix of its caller's separator list.
RecursionNarrows ==
    [][(pc = "loop" /\ pc' = "enter") =>
          /\ Len(stack') = Len(stack) + 1
          /\ IsProperSuffix(stack'[Len(stack')].separators,
                            stack[Len(stack)].separators)]_vars

\* C5, the fallback: with chunk_overlap < chunk_size every iteration of the
\* window loop moves start forward by chunk_size - chunk_overlap > 0.
WindowAdvances ==
    [][(pc = "window" /\ pc' = "window" /\ ValidConfig) =>
          /\ stack'[Len(stack')].start
                = stack[Len(stack)].start + (chunk_size - chunk_overlap)
          /\ stack'[Len(stack')].start > stack[Len(stack)].start]_vars

\* C5: with 0 <= chunk_overlap < chunk_size a call of split_text ends, its
\* recursive calls narrowing the separator list and its window loop
\* advancing on the way.
SplitTerminates ==
    /\ RecursionNarrows
    /\ WindowAdvances
    /\ [](ValidConfig => <>(pc = "done"))

\* C5 witness: a recursive call is in the window loop, past its first window.
SplitTerminatesWitness ==
    /\ ValidConfig
    /\ pc = "window"
    /\ Len(stack) >= 2
    /\ Top.start > 0
    /\ Top.start < Len(Top.text)

\* The characters the default separators are made of.
SeparatorChars == {"\n", "U+3002", ".", "U+FF1B", ";", "U+FF0C", ",", " "}

\* The text is a 1200-character document with paragraph breaks at offsets
\* 600 and 900.
IsScenarioDocument ==
    /\ Len(text) = 1200
    /\ OccursAt(text, ParagraphBreak, 600)
    /\ OccursAt(text, ParagraphBreak, 900)

\* Apart from the two breaks the document holds no separator character and
\* no whitespace.
ParagraphsAreSolid ==
    \A j \in 1..Len(text) :
        j \notin {601, 602, 901, 902} =>
            text[j] \notin SeparatorChars \cup Whitespace

\* What the scenario expects of the chunks of the document.
ScenarioOutcome ==
    /\ Len(result) = 3
    /\ \A i \in 1..Len(result) : Len(result[i].content) <= 500
    /\ SubSeq(result[2].content, 1, 50)
          = LastChars(result[1].content, 50)

\* C7 as stated: with chunk_size 500 and overlap 50 every such document is
\* split into exactly 3 chunks of at most 500 characters, the second one
\* starting with the last 50 characters of the first.
ScenarioThreeChunks ==
    (GeneralDone /\ IsScenarioDocument
        /\ chunk_size = 500 /\ chunk_overlap = 50) => ScenarioOutcome

\* C7 amended: the same, for the documents whose three paragraphs hold no
\* separator character and no whitespace.
ScenarioThreeChunksSolid ==
    (GeneralDone /\ IsScenarioDocument /\ ParagraphsAreSolid
        /\ chunk_size = 500 /\ chunk_overlap = 50) => ScenarioOutcome

\* C7 witness: a solid document whose letters vary has been split.
ScenarioWitness ==
    /\ GeneralDone /\ IsScenarioDocument /\ ParagraphsAreSolid
    /\ chunk_size = 500 /\ chunk_overlap = 50
    /\ text[1] # text[2]
    /\ Len(result) = 3

(***************************************************************************)
(* Properties of the vector index.                                         *)
(***************************************************************************)
\* The latest two add / delete calls are an add that returned and a delete
\* of the same document_id right after it (searches are no operation on
\* the collection).
DeleteFollowsAdd ==
    /\ last[1].op = "add"
    /\ ~ last[1].raised
    /\ last[2].op = "delete"
    /\ last[2].document_id = last[1].document_id

\* The collection held an entry of the document_id before the add.
StoredBeforeAdd ==
    \E j \in 1..Len(last[1].before) :
        last[1].before[j].metadata.document_id = last[1].document_id

\* total_chunks is back at its value before the add, the delete returned
\* what the add returned, and no search since returned an entry of the
\* document_id.
AddUndone ==
    /\ GetStats.total_chunks = Len(last[1].before)
    /\ last[2].ret = last[1].ret
    /\ \A a \in 1..Len(found) :
          found[a].metadata.document_id # last[2].document_id

\* C8 as stated: after add(chunks, d) followed by delete_document(d) with
\* no other operation in between, total_chunks equals its value before the
\* add, the delete returns the number the add returned, and no later search
\* returns an entry whose document_id is d.
DeleteUndoesAdd == DeleteFollowsAdd => AddUndone

\* C8 amended: the same, when no entry of d was stored before the add.
DeleteUndoesAddOfNewDocument ==
    (DeleteFollowsAdd /\ ~ StoredBeforeAdd) => AddUndone

\* C8 witness: two chunks were added under a new document_id beside the
\* entries of another document, the delete followed, and a search then
\* returned an entry.
DeleteUndoesAddWitness ==
    /\ DeleteFollowsAdd /\ ~ StoredBeforeAdd
    /\ last[1].ret = 2
    /\ last[2].ret = 2
    /\ last[1].before # <<>>
    /\ found # <<>>

\* The entries an add call writes for its chunks: the contents in order,
\* all under the document_id of the call.
CarriesChunks(entries, call) ==
    /\ Len(entries) = Len(call.chunks)
    /\ \A j \in 1..Len(entries) :
          /\ entries[j].content = call.chunks[j].content
          /\ entries[j].metadata.document_id = call.document_id

\* C9: add is all-or-nothing. When the embedding fails during
\* add_documents the collection is the one the call found, so search,
\* get_stats and list_documents, which read only the collection, see no
\* entry of the call; when the call returns, the collection is the one it
\* found followed by one entry per chunk, and the call returned len(chunks).
AddAllOrNothing ==
    last[2].op = "add" =>
        IF last[2].raised
        THEN store = last[2].before
        ELSE /\ SubSeq(store, 1, Len(last[2].before)) = last[2].before
             /\ CarriesChunks(SubSeq(store, Len(last[2].before) + 1, Len(store)),
                              last[2])
             /\ GetStats.total_chunks
                   = Len(last[2].before) + Len(last[2].chunks)
             /\ last[2].ret = Len(last[2].chunks)

\* C9 witness: the embedding failed at the second of two chunks, after the
\* first was embedded, in a collection that held entries.
AddAllOrNothingWitness ==
    /\ last[2].op = "add"
    /\ last[2].raised
    /\ Len(last[2].chunks) = 2
    /\ last[2].fail_at = 2
    /\ store # <<>>

\* C10: no two stored entries carry the same entry id
\* {document_id}_{index}, whatever adds and deletes came before.
EntryIdsUnique ==
    \A i, j \in 1..Len(store) :
        i # j => store[i].metadata.chunk_id # store[j].metadata.chunk_id

\* What search promises of its results: at most k of them, relevance
\* non-increasing, and every metadata satisfying the filter.
AtMostK == Len(found) <= asked.k

ByRelevance ==
    \A a, b \in 1..Len(found) :
        a < b => found[a].relevance_score >= found[b].relevance_score

\* Entries are stamped in the order they are stored: among results of
\* equal relevance the one stored first comes first.
TiesInInsertionOrder ==
    \A a, b \in 1..Len(found) :
        (a < b /\ found[a].relevance_score = found[b].relevance_score)
            => found[a].metadata.added_at < found[b].metadata.added_at

FilterSatisfied ==
    \A a \in 1..Len(found) : Satisfies(found[a].metadata, asked.filter)

\* C11: search(query, k, filter) returns at most k results, ordered by
\* non-increasing relevance score, results of equal relevance in insertion
\* order, and with a metadata filter every result satisfies it.
SearchOrdered ==
    asked.called =>
        AtMostK /\ ByRelevance /\ TiesInInsertionOrder /\ FilterSatisfied

\* C12: every relevance score search returns lies in [0,1] (0..10 tenths):
\* a distance above 1 yields relevance 0, never a negative value.
RelevanceInUnitInterval ==
    \A a \in 1..Len(found) :
        /\ found[a].relevance_score >= 0
        /\ found[a].relevance_score <= 10

\* The entries of a collection that carry the document_id.
EntriesOf(collection, document_id) ==
    SelectSeq(collection,
        LAMBDA e : e.metadata.document_id = document_id)

\* C14: delete_document(d) removes every entry whose document_id is d and
\* returns their number, 0 without raising when d is unknown; the entries
\* of the other documents stay as they were, in their order.
DeleteRemovesDocumentOnly ==
    last[2].op = "delete" =>
        /\ ~ last[2].raised
        /\ last[2].ret = Len(EntriesOf(last[2].before, last[2].document_id))
        /\ store = SelectSeq(last[2].before,
                      LAMBDA e : e.metadata.document_id # last[2].document_id)

\* C14 witness: the deleted document had an entry stored between entries
\* of another document, which are still there.
DeleteRemovesDocumentOnlyWitness ==
    /\ last[2].op = "delete"
    /\ last[2].ret = 1
    /\ Len(last[2].before) = 3
    /\ last[2].before[2].metadata.document_id = last[2].document_id
    /\ Len(store) = 2

\* The distinct document_id values among the entries of a collection.
DocumentIdsIn(collection) ==
    { d \in DocumentIds : EntriesOf(collection, d) # <<>> }

\* C15: get_stats reports total_chunks equal to the number of stored
\* entries and total_documents equal to the number of distinct document_id
\* values among them, after any adds and deletes; add_documents([], id)
\* returns 0 and leaves both numbers as they were.
StatsCountStore ==
    /\ GetStats.total_chunks = Cardinality(DOMAIN store)
    /\ GetStats.total_documents = Cardinality(DocumentIdsIn(store))
    /\ (last[2].op = "add" /\ last[2].chunks = <<>>) =>
          /\ ~ last[2].raised
          /\ last[2].ret = 0
          /\ GetStats = StatsOf(last[2].before)

\* C15 witness: an empty add on a collection of three entries of two
\* documents.
StatsCountStoreWitness ==
    /\ last[2].op = "add"
    /\ last[2].chunks = <<>>
    /\ GetStats.total_chunks = 3
    /\ GetStats.total_documents = 2

\* The rows list_documents returns for the document_id.
RowsOf(document_id) ==
    SelectSeq(ListDocuments, LAMBDA row : row.id = document_id)

NoContextAnswer ==
    (rag.pc \notin {"idle", "searched"} /\ rag.context_chunks = <<>>) =>
        /\ rag.pc = "returned"
        /\ rag.has_result
        /\ ~ rag.failed
        /\ rag.result.answer = NoContextMessage
        /\ rag.result.has_context = FALSE
        /\ rag.result.sources = <<>>
        /\ rag.generations = 0

\* C13 witness: query_sync has returned on an empty index.
NoContextAnswerWitness ==
    /\ rag.pc = "returned"
    /\ rag.mode = "query_sync"
    /\ rag.context_chunks = <<>>
    /\ store = <<>>

\* The (source, page) pair of a retrieved chunk.
SourcePage(chunk) ==
    <<SourceText(chunk.metadata), PageText(chunk.metadata)>>

\* The positions of the chunks that are the first of their pair, in order.
RECURSIVE FirstOccurrences(_, _)
FirstOccurrences(chunks, j) ==
    IF j > Len(chunks) THEN <<>>
    ELSE IF \E i \in 1..(j - 1) : SourcePage(chunks[i]) = SourcePage(chunks[j])
    THEN FirstOccurrences(chunks, j + 1)
    ELSE <<j>> \o FirstOccurrences(chunks, j + 1)

ReturnedWithSources ==
    rag.pc = "returned" /\ rag.result.has_context /\ rag.include_sources

\* C17: the source list of an answer holds exactly one reference per
\* distinct (source, page) pair among the retrieved chunks, in order of
\* first occurrence, each with the relevance score and the preview of the
\* first chunk of its pair; chunks of different pairs are never merged.
SourcesOnePerPair ==
    ReturnedWithSources =>
        LET firsts == FirstOccurrences(rag.context_chunks, 1)
            sources == rag.result.sources
        IN  /\ Len(sources) = Len(firsts)
            /\ \A n \in 1..Len(firsts) :
                  LET chunk == rag.context_chunks[firsts[n]]
                  IN  /\ sources[n].relevance_score = chunk.relevance_score
                      /\ sources[n].content = Preview(chunk.content)
                      /\ sources[n].source = SourceReference(chunk).source

\* C17 witness: two retrieved chunks of one (source, page) pair, of
\* different content, answered with one reference.
SourcesOnePerPairWitness ==
    /\ ReturnedWithSources
    /\ Len(rag.context_chunks) = 2
    /\ SourcePage(rag.context_chunks[1]) = SourcePage(rag.context_chunks[2])
    /\ rag.context_chunks[1].content # rag.context_chunks[2].content
    /\ Len(rag.result.sources) = 1

\* C18: when the generation fails the call ends with the error: the
\* generation was invoked once and never more than once in a call, no
\* result is returned, and the no-context result is not given in its
\* place.
GenerationFailurePropagates ==
    /\ rag.pc # "idle" => rag.generations <= 1
    /\ (rag.pc # "idle" /\ rag.failed) =>
          /\ rag.pc = "raised"
          /\ rag.generations = 1
          /\ ~ rag.has_result

\* C18 witness: the generation of a call with context has failed.
GenerationFailurePropagatesWitness ==
    /\ rag.pc = "raised"
    /\ rag.failed
    /\ Len(rag.context_chunks) = 2

\* The context as the call should have rendered it: one part per result
\* of the search, in search order, numbered from 1.
RECURSIVE NumberedContext(_, _)
NumberedContext(chunks, n) ==
    IF n = 0 THEN ""
    ELSE (IF n = 1 THEN "" ELSE NumberedContext(chunks, n - 1) \o "\n")
            \o "[reference " \o ToString(n) \o "]\n"
            \o "source: " \o SourceText(chunks[n].metadata)
            \o ", page " \o PageText(chunks[n].metadata) \o "\n"
            \o "content: " \o chunks[n].content \o "\n"

IsPrefix(s, t) == Len(s) <= Len(t) /\ SubSeq(t, 1, Len(s)) = s

\* C19: the steps of a call come in order, search, format, generate,
\* return; the context given to the generation is the rendering of the
\* results of the search of that call, in search order and numbered from
\* 1; the answer returned is what the generation gave.
StepsInOrder ==
    rag.pc # "idle" =>
        /\ \/ IsPrefix(rag.steps, <<"search", "format", "generate", "return">>)
           \/ rag.steps = <<"search", "return">>
        /\ (asked.called /\ found # <<>>) => rag.context_chunks = found
        /\ rag.generations > 0 =>
              /\ rag.prompt_context
                    = NumberedContext(rag.context_chunks, Len(rag.context_chunks))
              /\ rag.prompt_context = rag.context
        /\ (rag.pc = "returned" /\ rag.result.has_context) =>
              /\ rag.result.answer = rag.output
              /\ rag.output \in GenerationOutputs

\* C19 witness: a call has returned the answer generated from the one
\* chunk its search found, while the index has grown since.
StepsInOrderWitness ==
    /\ rag.pc = "returned"
    /\ rag.steps = <<"search", "format", "generate", "return">>
    /\ Len(rag.context_chunks) = 1
    /\ Len(store) = 2
    /\ rag.result.answer = "answer 2"

\* The entries that carry what caller c gave for its chunk at position j.
StoredFor(c, j) ==
    { e \in DOMAIN store :
        /\ store[e].metadata.document_id = adders[c].document_id
        /\ store[e].metadata.chunk_id = ChunkId(adders[c].document_id, j - 1)
        /\ store[e].content = adders[c].chunks[j].content }

BothAdded == \A c \in Callers : adders[c].pc = "done"

\* C20: when two add_documents calls with different document_ids have
\* both returned, in whatever order their steps were taken, every chunk of
\* each call is stored exactly once under the document_id, content and
\* chunk id of its call, and the collection holds nothing else: no call
\* lost, overwrote or relabelled an entry of the other.
ConcurrentAddsKeepEntries ==
    BothAdded =>
        /\ \A c \in Callers : \A j \in 1..Len(adders[c].chunks) :
              Cardinality(StoredFor(c, j)) = 1
        /\ Len(store) = Len(adders[1].chunks) + Len(adders[2].chunks)
        /\ \A c \in Callers : adders[c].ret = Len(adders[c].chunks)

\* C20 witness: both calls have returned, and the call that built its
\* Documents first was the second to be stored.
ConcurrentAddsWitness ==
    /\ BothAdded
    /\ Len(store) = 3
    /\ store[1].metadata.added_at > store[3].metadata.added_at


(***************************************************************************)
(* Properties of the greedy accumulation and of the window loop.           *)
(***************************************************************************)
\* The last n characters of s, all of s when it is shorter.
Suffix(s, n) ==
    IF n >= Len(s) THEN s ELSE SubSeq(s, Len(s) - n + 1, Len(s))

\* The loop is at a piece that does not fit into current_chunk.
AtOverflow ==
    /\ pc = "loop"
    /\ Top.k <= Len(Top.splits)
    /\ ~Fits(Top.current_chunk, Piece(Top.splits[Top.k], Top.separator))

\* The loop is about to save current_chunk: at an overflow, or after the
\* last piece.
AboutToSave ==
    /\ pc = "loop"
    /\ (Top.k > Len(Top.splits) \/ AtOverflow)
    /\ Strip(Top.current_chunk) # <<>>

\* C23, the step: at an overflow the buffer is saved trimmed (nothing is
\* saved of a blank buffer) and the new buffer is the last chunk_overlap
\* characters of the untrimmed buffer followed by the piece.
FlushSeedsBuffer ==
    [][(AtOverflow /\ ValidConfig) =>
          LET buffer == Top.current_chunk
              piece == Piece(Top.splits[Top.k], Top.separator)
              after == stack'[Len(stack)]
          IN  /\ after.chunks = IF Strip(buffer) # <<>>
                                THEN Append(Top.chunks, Strip(buffer))
                                ELSE Top.chunks
              /\ after.current_chunk = Suffix(buffer, chunk_overlap) \o piece]_vars

\* C23, the consequence: a chunk saved from a buffer that a flush started
\* begins with the last chunk_overlap characters of the chunk that flush
\* saved.
ChunkAfterFlushOverlaps ==
    (ValidConfig /\ AboutToSave /\ Strip(Top.flushed) # <<>>) =>
        IsPrefix(Suffix(Strip(Top.flushed), chunk_overlap),
                 Strip(Top.current_chunk))

\* C23: at every overflow the buffer is flushed trimmed and the new buffer
\* is the overlap window of the flushed buffer followed by the piece, and
\* so every chunk produced after a flush begins with the last chunk_overlap
\* characters of the chunk emitted just before it.
GreedyFlushOverlaps == FlushSeedsBuffer /\ []ChunkAfterFlushOverlaps

\* The flushed buffer does not end with whitespace and its overlap window
\* does not begin with whitespace: trimming leaves the window as it is.
WindowSurvivesTrim ==
    /\ Top.flushed[Len(Top.flushed)] \notin Whitespace
    /\ chunk_overlap > 0 =>
          Suffix(Top.flushed, chunk_overlap)[1] \notin Whitespace

\* C23 amended, the consequence: the same, for the flushed buffers whose
\* overlap window trimming leaves as it is.
ChunkAfterFlushOverlapsUntrimmed ==
    (ValidConfig /\ AboutToSave /\ Strip(Top.flushed) # <<>>
        /\ WindowSurvivesTrim) =>
        IsPrefix(Suffix(Strip(Top.flushed), chunk_overlap),
                 Strip(Top.current_chunk))

\* C23 amended: the step as stated, and the consequence for the chunks
\* saved from a buffer that was not split further and whose overlap window
\* trimming left as it was.
GreedyFlushOverlapsUntrimmed ==
    FlushSeedsBuffer /\ []ChunkAfterFlushOverlapsUntrimmed

\* C23 witness: "aa.a" with chunk_size 3 and overlap 1. The buffer "aa."
\* was flushed at the piece "a.", and the buffer ".a." started then is
\* about to be saved.
GreedyFlushWitness ==
    /\ ValidConfig
    /\ AboutToSave
    /\ chunk_overlap = 1
    /\ Top.flushed = <<"a", "a", ".">>
    /\ Top.current_chunk = <<".", "a", ".">>


\* No separator of the default list occurs in the text, which is too long
\* to be returned as it is: split_text goes to _split_by_size at "".
OnFallbackPath ==
    /\ Len(text) > chunk_size
    /\ \A i \in 1..Len(DefaultSeparators) :
          DefaultSeparators[i] # <<>> => ~Contains(text, DefaultSeparators[i])

\* Characters [i * (chunk_size - chunk_overlap),
\*             i * (chunk_size - chunk_overlap) + chunk_size) of the text.
WindowAt(i) ==
    Slice(text, i * (chunk_size - chunk_overlap),
                i * (chunk_size - chunk_overlap) + chunk_size)

\* The number of windows that start inside the text.
WindowCount ==
    (Len(text) + (chunk_size - chunk_overlap) - 1)
        \div (chunk_size - chunk_overlap)

\* The windows trimmed, the blank ones left out.
KeptWindows ==
    SelectSeq([i \in 1..WindowCount |-> Strip(WindowAt(i - 1))],
              LAMBDA w : w # <<>>)

\* C24, the windows: on the fallback path the chunks are the windows
\* 0, 1, 2, ... of the text, trimmed and without the blank ones.
ChunksAreWindows ==
    (GeneralDone /\ ValidConfig /\ OnFallbackPath) =>
        Contents(result) = KeptWindows

\* C24, the lengths: every chunk but the last is chunk_size characters long.
WindowsFullButLast ==
    (GeneralDone /\ ValidConfig /\ OnFallbackPath) =>
        \A i \in 1..(Len(result) - 1) : Len(result[i].content) = chunk_size

\* C24: on the character-fallback path window i covers characters
\* [i * (chunk_size - chunk_overlap), i * (chunk_size - chunk_overlap) +
\* chunk_size) of the text, and every emitted chunk is exactly chunk_size
\* characters long except the final remainder.
FallbackWindowsExact == ChunksAreWindows /\ WindowsFullButLast


(***************************************************************************)
(* Properties of the chunk list of split_text and of split_document.       *)
(***************************************************************************)
\* C26: in the list either split_text returns the chunk at position i,
\* counted from 0, has chunk_index i, also when code blocks and prose are
\* mixed.
ChunkIndexIsPosition ==
    (GeneralDone \/ CodeAwareDone) => \A i \in 1..Len(result) : result[i].chunk_index = i - 1

\* C27, the loop: every iteration of the window loop moves start forward,
\* whatever pair the splitter was constructed with.
WindowAlwaysAdvances ==
    [][(pc = "window" /\ pc' = "window") =>
          stack'[Len(stack')].start > stack[Len(stack)].start]_vars

\* C27: for every (chunk_size, chunk_overlap) the constructor accepts, every
\* iteration of the loop of _split_by_size advances start and the call of
\* split_text ends.
AcceptedConfigTerminates ==
    /\ WindowAlwaysAdvances
    /\ [](pc = "ready" => <>(pc = "done"))

\* A chunk that is a contiguous substring of the text, after at most
\* chunk_overlap characters of overlap.
FromText(chunk) ==
    \E n \in 0..chunk_overlap :
        /\ n <= Len(chunk)
        /\ Contains(text, SubSeq(chunk, n + 1, Len(chunk)))

\* C28: every chunk of the general splitter is a contiguous substring of
\* the text, or an overlap suffix followed by one: no chunk holds a
\* character the text does not hold there, such as a separator appended
\* after the last piece of a text that does not end with it.
ChunksFromText ==
    (GeneralDone /\ ValidConfig) =>
        \A i \in 1..Len(result) : FromText(result[i].content)

DocumentDone ==
    pc = "done" /\ splitter = "CodeAwareTextSplitter.split_document"

\* C29: split_document of a code-aware splitter gives for a page the chunk
\* contents CodeAwareTextSplitter.split_text gives for the text of the page,
\* so that a fenced code block of at most 2 x chunk_size is one chunk.
DocumentSplitIsCodeAware ==
    DocumentDone =>
        [i \in 1..Len(result) |-> result[i].content]
            = Contents(CodeAwareSplitText(text))

(***************************************************************************)
(* Properties of the source references.                                    *)
(***************************************************************************)
\* C25: the preview of a source reference is the content itself when the
\* content has at most 150 characters, and its first 150 characters
\* followed by an ellipsis when it is longer.
PreviewCutsOnlyLongContent ==
    rag.pc = "formatted" =>
        /\ Len(rag.sources) = 1
        /\ LET content == rag.context_chunks[1].content
           IN  rag.sources[1].content =
                  IF Len(content) <= PreviewLength THEN content
                  ELSE SubSeq(content, 1, PreviewLength) \o Ellipsis

\* The half of C25 about long contents: a content of more than 150
\* characters is cut to 150 and followed by an ellipsis.
PreviewCutsLongContent ==
    (rag.pc = "formatted" /\ Len(rag.context_chunks[1].content) > PreviewLength)
        => rag.sources[1].content
              = SubSeq(rag.context_chunks[1].content, 1, PreviewLength)
                    \o Ellipsis

(***************************************************************************)
(* Properties of searches that run beside adds.                            *)
(***************************************************************************)
\* The entries of the store that carry the document_id of caller c.
StoredOf(c) ==
    SelectSeq(store,
        LAMBDA e : e.metadata.document_id = adders[c].document_id)

\* The store holds the batch of a call whole or not at all.
StoreHoldsWholeBatches ==
    \A c \in Callers :
        adders[c].pc \in {"prepared", "done", "raised"} =>
            \/ StoredOf(c) = <<>>
            \/ /\ adders[c].pc = "done"
               /\ Len(StoredOf(c)) = Len(adders[c].documents)

\* Every result of the latest search is a whole Document of some call:
\* its content, and its metadata with document_id, chunk_id and added_at.
FoundEntriesWhole ==
    \A i \in 1..Len(found) :
        /\ found[i].content \in ChunkContents
        /\ {"document_id", "chunk_id", "added_at"}
              \subseteq DOMAIN found[i].metadata
        /\ \E c \in Callers : \E j \in 1..Len(adders[c].documents) :
              /\ adders[c].documents[j].page_content = found[i].content
              /\ adders[c].documents[j].metadata = found[i].metadata

\* C21: a search that runs beside an add sees no half-written entry: the
\* batch of a call is in the store whole or not at all, and every entry a
\* search returns has its content and its metadata with document_id,
\* chunk_id and added_at.
SearchSeesWholeEntries == StoreHoldsWholeBatches /\ FoundEntriesWhole

\* C21 witness: a search has returned an entry of one call while the other
\* call, which stamped its Documents earlier, has not yet stored them.
SearchSeesWholeEntriesWitness ==
    \E c, d \in Callers :
        /\ c # d
        /\ adders[d].pc = "prepared"
        /\ Len(adders[d].documents) = 2
        /\ found # <<>>
        /\ found[1].metadata.document_id = adders[c].document_id
        /\ adders[d].documents[1].metadata.added_at
              < found[1].metadata.added_at

(***************************************************************************)
(* Properties of the construction of the VectorStoreManager.               *)
(***************************************************************************)
\* Every call has returned the same object.
SameInstance == Cardinality(manager.returned) <= 1

\* The persistent client has been opened at most once, and once when a
\* call has returned.
OpenedOnce ==
    /\ manager.opened <= 1
    /\ manager.returned # {} => manager.opened = 1

\* The entries on disk are the ones the process found.
StoreKept == manager.disk.entries = manager.at_start

\* C22: any number of VectorStoreManager() / get_vector_store() calls, in
\* any order and from any concurrent callers, yield the same instance, the
\* persistent client and the collection are opened exactly once, and
\* opening an existing store neither clears nor duplicates its entries.
SingletonOpenedOnce == SameInstance /\ OpenedOnce /\ StoreKept

\* Only one caller has made calls.
OneCaller ==
    \E c \in Callers :
        \A d \in Callers \ {c} : manager.callers[d].calls = 0

\* The same for the calls of one caller, which come one after the other.
SingletonOfOneCaller == OneCaller => SingletonOpenedOnce

(***************************************************************************)
(* Properties of the chat endpoint.                                        *)
(***************************************************************************)
\* No request is being served.
ChatQuiet == chat.request.pc \in {"idle", "responded", "failed", "unavailable"}

\* Every user message of the session is followed by one assistant message.
Answered(messages) ==
    /\ Len(messages) % 2 = 0
    /\ \A j \in 1..Len(messages) :
          messages[j].role = IF j % 2 = 1 THEN "user" ELSE "assistant"

\* A request that failed has left the messages of its session as they were.
FailedRequestLeavesHistory ==
    chat.request.pc = "failed" =>
        chat.sessions[chat.request.conversation_id] = chat.request.before

\* C30: after any sequence of chat requests, failed ones included, every
\* persisted user message of a session is followed by exactly one assistant
\* message: a failed request leaves the messages of its session as they
\* were before it.
ChatAllOrNothing ==
    /\ ChatQuiet =>
          \A n \in 1..Len(chat.sessions) : Answered(chat.sessions[n])
    /\ FailedRequestLeavesHistory

\* The requests that are answered leave their session answered.
RespondedChatsAnswered ==
    (chat.request.pc = "responded") =>
        /\ chat.sessions[chat.request.conversation_id]
              = chat.request.before
                  \o << [role |-> "user", content |-> chat.request.message],
                        [role |-> "assistant", content |-> chat.request.answer] >>

=============================================================================
